---- MODULE Spec2Model ----
(***************************************************************************)
(* Model of the live-ov-info ingestion pipeline: the NDOV feed connector   *)
(* (src/core/connector.ts), the typed event bus (src/core/event-bus.ts),   *)
(* the KV6 parser (src/core/parser.ts), the vehicle state store            *)
(* (VehicleStateManager) and the SSE side of the API server.               *)
(*                                                                         *)
(* Conventions.  An optional value is a set: {} is undefined, {x} is x.    *)
(* A string that is missing is "" (undefined and "" are both falsy).       *)
(* Times are whole minutes; NaT is the time value of an Invalid Date.      *)
(***************************************************************************)
EXTENDS Integers, Sequences, FiniteSets, TLC

\* ------------------------------------------------------------------------
\* Bounds of the model
\* ------------------------------------------------------------------------
MaxUpdates == 2
MaxTime == 2
MaxAgeArg == 1
MaxElems == 2
MaxListeners == 2
MaxHistory == 2
MaxWritten == 3
MaxDisconnects == 2
MaxTimers == 2
MaxFrames == 2
MaxLoops == 2
MaxInserts == 4
MaxConnects == 2
MaxMinutes == 35

\* ------------------------------------------------------------------------
\* Values
\* ------------------------------------------------------------------------
\* getTime() of an Invalid Date, and the result of arithmetic on it
NaT == 0 - 999999
NaN == 0 - 999998

None == {}
Some(x) == {x}
Val(o) == CHOOSE x \in o : TRUE

\* JavaScript truthiness of an optional string / an optional number
TruthyStr(o) == o # {} /\ o # {""}
TruthyNum(o) == o # {} /\ o # {0} /\ o # {NaN}

KV6MessageType ==
  << "ARRIVAL", "DEPARTURE", "ONROUTE", "ONSTOP", "INIT", "END", "DELAY",
     "OFFROUTE", "CANCEL" >>

KV6Types == { KV6MessageType[i] : i \in 1..Len(KV6MessageType) }

\* ------------------------------------------------------------------------
\* Inputs of the store
\* ------------------------------------------------------------------------
VehicleIds == {"V1", "V2"}
UpdateTypes == {"ARRIVAL", "END"}
TimeStamps == {NaT, 0, MaxTime}

\* the optional part of a KV6Update: nothing, everything, everything with a
\* falsy value, a second position
OptionalFields ==
  { [stopCode |-> None, latitude |-> None, longitude |-> None,
     occupancy |-> None, punctuality |-> None],
    [stopCode |-> Some("S1"), latitude |-> Some(52), longitude |-> Some(5),
     occupancy |-> Some(3), punctuality |-> Some(60)],
    [stopCode |-> Some(""), latitude |-> Some(0), longitude |-> Some(0),
     occupancy |-> Some(0), punctuality |-> Some(0)],
    [stopCode |-> None, latitude |-> Some(53), longitude |-> Some(6),
     occupancy |-> None, punctuality |-> None] }

KV6Update(v, l, t, ts, o) ==
  [operator |-> "ARR", journeyNumber |-> "J1",
   vehicleNumber |-> v, lineNumber |-> l, type |-> t, timestamp |-> ts,
   stopCode |-> o.stopCode, latitude |-> o.latitude,
   longitude |-> o.longitude, occupancy |-> o.occupancy,
   punctuality |-> o.punctuality]

NoFields ==
  [stopCode |-> None, latitude |-> None, longitude |-> None,
   occupancy |-> None, punctuality |-> None]

\* events for the known vehicles, and one event without a vehicle number
StoreUpdates ==
  { KV6Update(v, "L1", t, ts, o) :
      v \in VehicleIds, t \in UpdateTypes, ts \in TimeStamps,
      o \in OptionalFields }
  \cup { KV6Update("", "L1", "ARRIVAL", 0, NoFields) }

NoUpdate == KV6Update("", "", "", NaT, NoFields)

VARIABLES
  vehicles,     \* VehicleStateManager.vehicles: vehicle id -> VehicleState
  now,          \* the wall clock, in minutes
  nUpdates,     \* number of updateVehicle calls so far
  prev,         \* the store before the last store operation
  lastOp,       \* the last store operation and its arguments
  lastApplied   \* per vehicle id, the last event updateVehicle was given

storeVars == << vehicles, now, nUpdates, prev, lastOp, lastApplied >>

VARIABLES
  xmlContent,   \* the argument of a parseXml call
  parseResult,  \* what the call returned
  parsePc       \* "start" before the call, "done" after it ("raised" if it threw)

parseVars == << xmlContent, parseResult, parsePc >>

VARIABLES
  listeners,    \* the EventEmitter: event name -> listeners in the order added
  lastEmit      \* the last emit call made on the bus and what became of it

busVars == << listeners, lastEmit >>

VARIABLES
  sseClients,   \* APIServer.sseClients
  written,      \* per response object, the SSE items written to it so far
  broken,       \* response objects whose write() throws
  history,      \* the events published and the sweeps run, in order
  attachedAt    \* per response object, Len(history) when it attached

sseVars == << sseClients, written, broken, history, attachedAt >>

VARIABLES
  isConnected,    \* NDOVConnector.isConnected
  reconnectTimer, \* NDOVConnector.reconnectTimer: 0 is undefined, else a timer id
  timers,         \* the timers set with setTimeout that are still pending
  nTimers,        \* number of setTimeout calls so far
  awaiting,       \* connect() / disconnect() calls suspended at each await
  loops,          \* the processMessages calls that are running
  nCalls,         \* connect() / disconnect() calls of the application, and the
                  \* disconnect() calls since its last connect() call
  nFrames,        \* frames delivered by the socket so far
  processed,      \* the payloads of the frames that passed the topic check
  published,      \* the KV6_UPDATE emits made, each with the frame it came from
  disc,           \* the application's last call: "none", or a disconnect() "pending" or "returned"
  step            \* what the last step of the connector did

connVars == << isConnected, reconnectTimer, timers, nTimers, awaiting, loops,
               nCalls, nFrames, processed, published, disc, step >>

VARIABLES
  objects,   \* the VehicleState objects created so far, by identity
  refs,      \* vehicle id -> identity of the object the Map holds for it
  keys,      \* the keys of the Map in insertion order
  held       \* the last value a reader got from getAllVehicles / getStatusCounts

readVars == << objects, refs, keys, held >>

VARIABLES
  payload,   \* the argument of a decodeContent call
  decoded    \* where the call is, and the string it returned

decodeVars == << payload, decoded >>

VARIABLES
  shutdownPc,  \* main: "starting", "running", "shutdown" once a signal came, "exited"
  intervals    \* the setInterval timers that are running: display, sweep, status

lifeVars == << shutdownPc, intervals >>

vars == << storeVars, parseVars, busVars, sseVars, connVars, readVars, decodeVars, lifeVars >>

\* ------------------------------------------------------------------------
\* VehicleStateManager
\* ------------------------------------------------------------------------
EmptyStore == [v \in {} |-> 0]

\* the state a first event seeds
SeedState(update) ==
  [vehicleNumber |-> update.vehicleNumber,
   lineNumber |-> IF update.lineNumber # "" THEN update.lineNumber ELSE "Unknown",
   status |-> update.type,
   lastUpdated |-> update.timestamp,
   stopCode |-> None, latitude |-> None, longitude |-> None,
   occupancy |-> None, punctuality |-> None]

\* MergeState with every optional field copied from the event, present or not
MergeStateClearsAbsent(existingState, update) ==
  [vehicleNumber |-> existingState.vehicleNumber,
   status |-> update.type,
   lastUpdated |-> update.timestamp,
   lineNumber |-> IF update.lineNumber # "" THEN update.lineNumber
                  ELSE existingState.lineNumber,
   stopCode |-> update.stopCode,
   latitude |-> update.latitude,
   longitude |-> update.longitude,
   occupancy |-> update.occupancy,
   punctuality |-> update.punctuality]

\* MergeState with lastUpdated only moved forward
MergeStateKeepsNewest(existingState, update) ==
  [vehicleNumber |-> existingState.vehicleNumber,
   status |-> update.type,
   lastUpdated |-> IF update.timestamp # NaT
                      /\ update.timestamp >= existingState.lastUpdated
                   THEN update.timestamp ELSE existingState.lastUpdated,
   lineNumber |-> IF update.lineNumber # "" THEN update.lineNumber
                  ELSE existingState.lineNumber,
   stopCode |-> IF TruthyStr(update.stopCode) THEN update.stopCode
                ELSE existingState.stopCode,
   latitude |-> IF TruthyNum(update.latitude) THEN update.latitude
                ELSE existingState.latitude,
   longitude |-> IF TruthyNum(update.longitude) THEN update.longitude
                 ELSE existingState.longitude,
   occupancy |-> IF update.occupancy # None THEN update.occupancy
                 ELSE existingState.occupancy,
   punctuality |-> IF update.punctuality # None THEN update.punctuality
                   ELSE existingState.punctuality]

\* the field-level merge of updateVehicle
MergeState(existingState, update) ==
  [vehicleNumber |-> existingState.vehicleNumber,
   status |-> update.type,
   lastUpdated |-> update.timestamp,
   lineNumber |-> IF update.lineNumber # "" THEN update.lineNumber
                  ELSE existingState.lineNumber,
   stopCode |-> IF TruthyStr(update.stopCode) THEN update.stopCode
                ELSE existingState.stopCode,
   latitude |-> IF TruthyNum(update.latitude) THEN update.latitude
                ELSE existingState.latitude,
   longitude |-> IF TruthyNum(update.longitude) THEN update.longitude
                 ELSE existingState.longitude,
   occupancy |-> IF update.occupancy # None THEN update.occupancy
                 ELSE existingState.occupancy,
   punctuality |-> IF update.punctuality # None THEN update.punctuality
                   ELSE existingState.punctuality]

\* updateVehicle without the check of the vehicle number
updateVehicleUnchecked(map, update) ==
  LET v == update.vehicleNumber
      existingState == IF v \in DOMAIN map THEN map[v]
                       ELSE SeedState(update)
      newState == MergeState(existingState, update)
  IN [w \in DOMAIN map \cup {v} |-> IF w = v THEN newState ELSE map[w]]

\* updateVehicle that stores the seeded state for a vehicle it has no entry
\* of, and merges the event only into an entry that exists
updateVehicleSeedsFirst(map, update) ==
  IF update.vehicleNumber = "" THEN map
  ELSE LET v == update.vehicleNumber
           newState == IF v \in DOMAIN map THEN MergeState(map[v], update)
                       ELSE SeedState(update)
       IN [w \in DOMAIN map \cup {v} |-> IF w = v THEN newState ELSE map[w]]

\* updateVehicle that keeps the entry of the event's vehicle only
updateVehicleEvicting(map, update) ==
  IF update.vehicleNumber = "" THEN map
  ELSE LET v == update.vehicleNumber
           existingState == IF v \in DOMAIN map THEN map[v]
                            ELSE SeedState(update)
           newState == MergeState(existingState, update)
       IN [w \in {v} |-> newState]

\* updateVehicle as a function of the map
updateVehicle(map, update) ==
  IF update.vehicleNumber = "" THEN map
  ELSE LET v == update.vehicleNumber
           existingState == IF v \in DOMAIN map THEN map[v]
                            ELSE SeedState(update)
           newState == MergeState(existingState, update)
       IN [w \in DOMAIN map \cup {v} |-> IF w = v THEN newState ELSE map[w]]

\* (now - lastUpdated) in minutes; NaN for an Invalid Date
AgeMinutes(t, lastUpdated) == IF lastUpdated = NaT THEN NaN ELSE t - lastUpdated

\* a > b on JavaScript numbers
GreaterThan(a, b) == a # NaN /\ b # NaN /\ a > b

\* IsStale with the boundary age counted as stale
IsStaleAtBoundary(t, state, maxAgeMinutes) ==
  LET age == AgeMinutes(t, state.lastUpdated)
  IN age # NaN /\ age >= maxAgeMinutes

IsStale(t, state, maxAgeMinutes) ==
  GreaterThan(AgeMinutes(t, state.lastUpdated), maxAgeMinutes)

\* cleanupStaleVehicles as a function of the map
cleanupStaleVehicles(map, t, maxAgeMinutes) ==
  LET kept == { v \in DOMAIN map : ~IsStale(t, map[v], maxAgeMinutes) }
  IN [v \in kept |-> map[v]]

\* ------------------------------------------------------------------------
\* KV6Parser
\* ------------------------------------------------------------------------
\* The text handed to parseXml, by what the XML parser makes of it: blank
\* text, text that is not well-formed, or a document with a root element,
\* possibly inside the VV_TM_PUSH envelope, and the root's child elements in
\* document order.  A child is empty (no attribute, no child, no text) or
\* carries the fields of a message as text.
Field(k, text) == [key |-> k, text |-> text]

\* the fields of a message element: key -> text
RawMessages ==
  { [k \in {"journeynumber", "vehiclenumber", "lineplanningnumber",
            "timestamp", "userstopcode", "punctuality", "rd-x", "rd-y",
            "occupancy"} |->
       CASE k = "journeynumber" -> "J1"
         [] k = "vehiclenumber" -> "V1"
         [] k = "lineplanningnumber" -> "L1"
         [] k = "timestamp" -> "T1"
         [] k = "userstopcode" -> "S1"
         [] k = "punctuality" -> "60"
         [] k = "rd-x" -> "155000"
         [] k = "rd-y" -> "463000"
         [] OTHER -> "3"],
    [k \in {"journeynumber", "vehiclenumber", "lineplanningnumber",
            "timestamp"} |->
       CASE k = "journeynumber" -> "J2"
         [] k = "vehiclenumber" -> "V2"
         [] k = "lineplanningnumber" -> "L1"
         [] OTHER -> "T2"],
    [k \in {"journeynumber", "vehiclenumber", "lineplanningnumber",
            "timestamp", "punctuality", "rd-x", "rd-y", "occupancy"} |->
       CASE k = "journeynumber" -> "J3"
         [] k = "vehiclenumber" -> "V1"
         [] k = "lineplanningnumber" -> "L1"
         [] k = "timestamp" -> "T1"
         [] k = "punctuality" -> "abc"
         [] k = "rd-x" -> "155000"
         [] k = "rd-y" -> "463000"
         [] OTHER -> "x"],
    [k \in {"journeynumber", "vehiclenumber", "lineplanningnumber",
            "timestamp", "punctuality", "rd-x", "rd-y", "occupancy"} |->
       CASE k = "journeynumber" -> "J4"
         [] k = "vehiclenumber" -> "V2"
         [] k = "lineplanningnumber" -> "L1"
         [] k = "timestamp" -> "T2"
         [] k = "punctuality" -> "60"
         [] k = "rd-x" -> "-1"
         [] k = "rd-y" -> "-1"
         [] OTHER -> "3"],
    [k \in {"journeynumber", "vehiclenumber", "lineplanningnumber",
            "timestamp", "rd-x", "rd-y", "occupancy"} |->
       CASE k = "journeynumber" -> "J5"
         [] k = "vehiclenumber" -> "V1"
         [] k = "lineplanningnumber" -> "L1"
         [] k = "timestamp" -> "T2"
         [] k = "rd-x" -> "155000"
         [] k = "rd-y" -> "463000"
         [] OTHER -> "9"] }

EmptyRaw == [k \in {} |-> ""]

DocTags == {"ARRIVAL", "INIT", "OTHER"}

Elements ==
  { [tag |-> t, empty |-> FALSE, raw |-> m] : t \in DocTags, m \in RawMessages }
  \cup { [tag |-> t, empty |-> TRUE, raw |-> EmptyRaw] : t \in DocTags }

RECURSIVE SeqsUpTo(_, _)
SeqsUpTo(S, n) ==
  IF n = 0 THEN { << >> }
  ELSE LET shorter == SeqsUpTo(S, n - 1)
       IN shorter \cup { Append(q, x) : q \in { r \in shorter : Len(r) = n - 1 }, x \in S }

XmlDoc(envelope, root, children) ==
  [kind |-> "xml", envelope |-> envelope, root |-> root, children |-> children]

BlankDoc == [kind |-> "blank", envelope |-> FALSE, root |-> "", children |-> << >>]
MalformedDoc == [kind |-> "malformed", envelope |-> FALSE, root |-> "", children |-> << >>]
WhitespaceDoc == [kind |-> "whitespace", envelope |-> FALSE, root |-> "", children |-> << >>]

Documents ==
  { XmlDoc(e, r, c) : e \in BOOLEAN, r \in {"KV6posinfo", "Other"},
                      c \in SeqsUpTo(Elements, MaxElems) }
  \cup { BlankDoc, WhitespaceDoc, MalformedDoc }

\* Number(text)
Number(text) ==
  CASE text = "0" -> 0
    [] text = "-1" -> 0 - 1
    [] text = "3" -> 3
    [] text = "9" -> 9
    [] text = "60" -> 60
    [] text = "155000" -> 155000
    [] text = "463000" -> 463000
    [] OTHER -> NaN

\* new Date(text).getTime(), in minutes
DateOf(text) ==
  CASE text = "T0" -> 0
    [] text = "T1" -> 1
    [] text = "T2" -> 2
    [] OTHER -> NaT

\* key.replace(/-/g, "_")
DashToUnderscore(key) ==
  CASE key = "rd-x" -> "rd_x"
    [] key = "rd-y" -> "rd_y"
    [] OTHER -> key

\* normalizeKeys on the object of one message
normalizeKeys(obj) ==
  [k \in { DashToUnderscore(j) : j \in DOMAIN obj } |->
     obj[CHOOSE j \in DOMAIN obj : DashToUnderscore(j) = k]]

\* rawMessage[key]: the text, or undefined
Prop(rawMessage, key) ==
  IF key \in DOMAIN rawMessage THEN Some(rawMessage[key]) ELSE None

\* rawMessage[key] as a string field of the event ("" when undefined)
StrProp(rawMessage, key) ==
  IF key \in DOMAIN rawMessage THEN rawMessage[key] ELSE ""

\* value ? Number(value) : undefined
NumberIfTruthy(o) == IF TruthyStr(o) THEN Some(Number(Val(o))) ELSE None

\* convertRdToWgs84: the origin of the projection maps to its reference
\* latitude / longitude; a pair outside the domain is an error
RdOriginX == 155000
RdOriginY == 463000

convertRdToWgs84(x, y) ==
  IF x = RdOriginX /\ y = RdOriginY
  THEN [error |-> FALSE, latitude |-> 52, longitude |-> 5]
  ELSE [error |-> TRUE, latitude |-> NaN, longitude |-> NaN]

normalizeMessage(rawMessage, type, operator) ==
  LET base ==
        [operator |-> operator,
         type |-> type,
         journeyNumber |-> StrProp(rawMessage, "journeynumber"),
         vehicleNumber |-> StrProp(rawMessage, "vehiclenumber"),
         lineNumber |-> StrProp(rawMessage, "lineplanningnumber"),
         timestamp |-> IF "timestamp" \in DOMAIN rawMessage
                       THEN DateOf(rawMessage["timestamp"]) ELSE NaT,
         stopCode |-> Prop(rawMessage, "userstopcode"),
         punctuality |-> NumberIfTruthy(Prop(rawMessage, "punctuality")),
         latitude |-> None, longitude |-> None, occupancy |-> None]
  IN IF "rd_x" \in DOMAIN rawMessage /\ "rd_y" \in DOMAIN rawMessage
     THEN LET position == convertRdToWgs84(Number(rawMessage["rd_x"]),
                                           Number(rawMessage["rd_y"]))
          IN IF position.error THEN base
             ELSE [base EXCEPT
                     !.latitude = Some(position.latitude),
                     !.longitude = Some(position.longitude),
                     !.occupancy = NumberIfTruthy(Prop(rawMessage, "occupancy"))]
     ELSE base

\* kv6[type] as the XML parser builds it: the children with that tag, in
\* document order (one object, or an array when the tag repeats)
ChildrenOfType(children, type) ==
  SelectSeq(children, LAMBDA el : el.tag = type)

\* if (kv6[type]): an array is truthy, a single element is truthy unless it
\* is empty (the parser turns an empty element into "")
HasType(children, type) ==
  LET els == ChildrenOfType(children, type)
  IN Len(els) >= 2 \/ (Len(els) = 1 /\ ~els[1].empty)

RECURSIVE NormalizeAll(_, _, _)
NormalizeAll(els, type, operator) ==
  IF els = << >> THEN << >>
  ELSE << normalizeMessage(normalizeKeys(Head(els).raw), type, operator) >>
       \o NormalizeAll(Tail(els), type, operator)

\* a loop over the children of the root whatever their tag, from index i
RECURSIVE ProcessTypesEveryTag(_, _, _)
ProcessTypesEveryTag(children, i, operator) ==
  IF i > Len(children) THEN << >>
  ELSE << normalizeMessage(normalizeKeys(children[i].raw), children[i].tag, operator) >>
       \o ProcessTypesEveryTag(children, i + 1, operator)

\* the loop of parseXml over Object.values(KV6MessageType), from index i
RECURSIVE ProcessTypes(_, _, _)
ProcessTypes(children, i, operator) ==
  IF i > Len(KV6MessageType) THEN << >>
  ELSE LET type == KV6MessageType[i]
           these == IF HasType(children, type)
                    THEN NormalizeAll(ChildrenOfType(children, type), type, operator)
                    ELSE << >>
       IN these \o ProcessTypes(children, i + 1, operator)

\* parsed.KV6posinfo alone: the envelope form is not looked for
SelectRootBare(content) ==
  IF ~content.envelope /\ content.root = "KV6posinfo" /\ content.children # << >>
  THEN [found |-> TRUE, kv6 |-> content.children]
  ELSE [found |-> FALSE, kv6 |-> << >>]

\* parsed.VV_TM_PUSH?.KV6posinfo, else parsed.KV6posinfo (an element without
\* content is '', which is falsy)
SelectRoot(content) ==
  IF content.envelope /\ content.root = "KV6posinfo" /\ content.children # << >>
  THEN [found |-> TRUE, kv6 |-> content.children]
  ELSE IF ~content.envelope /\ content.root = "KV6posinfo" /\ content.children # << >>
  THEN [found |-> TRUE, kv6 |-> content.children]
  ELSE [found |-> FALSE, kv6 |-> << >>]

\* the body of the try of parseXml: parseStringPromise throws on text that
\* is not well-formed
TryParse(content, operator) ==
  IF content.kind = "blank" \/ content.kind = "whitespace"
  THEN [thrown |-> FALSE, value |-> << >>]
  ELSE IF content.kind = "malformed" THEN [thrown |-> TRUE, value |-> << >>]
  ELSE IF ~SelectRoot(content).found THEN [thrown |-> FALSE, value |-> << >>]
  ELSE [thrown |-> FALSE,
        value |-> ProcessTypes(SelectRoot(content).kv6, 1, operator)]

\* parseXml without its catch
ParseUncaught(content, operator) ==
  [raised |-> TryParse(content, operator).thrown,
   events |-> TryParse(content, operator).value]

\* parseXml: what the call returns, and whether it raises
ParseOutcome(content, operator) ==
  IF TryParse(content, operator).thrown
  THEN [raised |-> FALSE, events |-> << >>]
  ELSE [raised |-> FALSE, events |-> TryParse(content, operator).value]

parseXml(content, operator) == ParseOutcome(content, operator).events

\* ------------------------------------------------------------------------
\* parseXml on every document
\* ------------------------------------------------------------------------
ParseIdle ==
  /\ xmlContent = BlankDoc
  /\ parseResult = << >>
  /\ parsePc = "idle"

ParseStart ==
  /\ xmlContent \in Documents
  /\ parseResult = << >>
  /\ parsePc = "start"

ParseXml ==
  /\ parsePc = "start"
  /\ parseResult' = ParseOutcome(xmlContent, "ARR").events
  /\ parsePc' = IF ParseOutcome(xmlContent, "ARR").raised THEN "raised" ELSE "done"
  /\ UNCHANGED << xmlContent, storeVars, busVars, sseVars, connVars, readVars, decodeVars, lifeVars >>

\* ------------------------------------------------------------------------
\* VehicleStateManager reads
\* ------------------------------------------------------------------------
\* localeCompare on the vehicle numbers of the model
IdRank(v) ==
  CASE v = "V1" -> 1 [] v = "V2" -> 2 [] v = "V3" -> 3 [] v = "V4" -> 4 [] OTHER -> 0

RECURSIVE SortById(_)
SortById(ids) ==
  IF ids = {} THEN << >>
  ELSE LET first == CHOOSE v \in ids : \A w \in ids : IdRank(v) <= IdRank(w)
       IN << first >> \o SortById(ids \ {first})

\* getAllVehicles without the sort: the values in the order of the Map
getAllVehiclesUnsorted(map) ==
  LET order == SelectSeq(keys, LAMBDA k : k \in DOMAIN map /\ map[k].vehicleNumber # "")
  IN [i \in 1..Len(order) |-> map[order[i]]]

getAllVehicles(map) ==
  LET valid == { v \in DOMAIN map : map[v].vehicleNumber # "" }
      order == SortById(valid)
  IN [i \in 1..Len(order) |-> map[order[i]]]

ActiveStatuses == {"ARRIVAL", "DEPARTURE", "ONROUTE", "ONSTOP"}

\* getStatusCounts with the count by status kept for the active entries only
getStatusCountsActiveOnly(map) ==
  LET counted == { v \in DOMAIN map : map[v].status \in ActiveStatuses }
      statuses == { map[v].status : v \in counted }
  IN [total |-> Cardinality(DOMAIN map),
      active |-> Cardinality(counted),
      byStatus |-> [st \in statuses |->
                      Cardinality({ v \in counted : map[v].status = st })]]

\* getStatusCounts with every entry counted as active
getStatusCountsAllActive(map) ==
  LET counted == { v \in DOMAIN map : map[v].status # "" }
      statuses == { map[v].status : v \in counted }
  IN [total |-> Cardinality(DOMAIN map),
      active |-> Cardinality(counted),
      byStatus |-> [st \in statuses |->
                      Cardinality({ v \in counted : map[v].status = st })]]

getStatusCounts(map) ==
  LET counted == { v \in DOMAIN map : map[v].status # "" }
      statuses == { map[v].status : v \in counted }
  IN [total |-> Cardinality(DOMAIN map),
      active |-> Cardinality({ v \in counted : map[v].status \in ActiveStatuses }),
      byStatus |-> [st \in statuses |->
                      Cardinality({ v \in counted : map[v].status = st })]]

NoCounts == [total |-> 0, active |-> 0, byStatus |-> [st \in {} |-> 0]]

\* ------------------------------------------------------------------------
\* APIServer: server-sent events
\* ------------------------------------------------------------------------
SinkIds == {"c1", "c2"}

\* an SSE message: the event name written and the data that goes with it
SSEItem(kind, update, list, counts, connected) ==
  [kind |-> kind, update |-> update, vehicles |-> list, counts |-> counts,
   connected |-> connected]

ConnectedItem == SSEItem("connected", NoUpdate, << >>, NoCounts, FALSE)
InitialDataItem(map) ==
  SSEItem("initial_data", NoUpdate, getAllVehicles(map), getStatusCounts(map), FALSE)
VehicleUpdateItem(update) == SSEItem("vehicle_update", update, << >>, NoCounts, FALSE)
ConnectionStatusItem(c) == SSEItem("connection_status", NoUpdate, << >>, NoCounts, c)
StatusUpdateItem(map) ==
  SSEItem("status_update", NoUpdate, << >>, getStatusCounts(map), FALSE)

\* broadcastSSE without the try around each write: a write that throws ends
\* the loop over the clients
broadcastSSEStopsAtFailure(clients, log, message) ==
  LET disconnectedClients == clients \cap broken
  IN [clients |-> clients \ disconnectedClients,
      log |-> [c \in DOMAIN log |->
                 IF c \in clients /\ disconnectedClients = {}
                 THEN Append(log[c], message) ELSE log[c]]]

\* broadcastSSE: write to every client, then drop the clients whose write threw
broadcastSSE(clients, log, message) ==
  LET disconnectedClients == clients \cap broken
  IN [clients |-> clients \ disconnectedClients,
      log |-> [c \in DOMAIN log |->
                 IF c \in clients \ disconnectedClients
                 THEN Append(log[c], message) ELSE log[c]]]

\* sendSSEMessage: write to one client, drop it when the write throws
sendSSEMessage(clients, log, res, message) ==
  IF res \in broken
  THEN [clients |-> clients \ {res}, log |-> log]
  ELSE [clients |-> clients,
        log |-> [c \in DOMAIN log |->
                   IF c = res THEN Append(log[c], message) ELSE log[c]]]

\* ------------------------------------------------------------------------
\* TypedEventEmitter
\* ------------------------------------------------------------------------
KV6_UPDATE == "kv6:update"
CONNECTION_ERROR == "connection:error"
CONNECTION_STATUS == "connection:status"
EventNames == {KV6_UPDATE, CONNECTION_ERROR, CONNECTION_STATUS}

\* The listeners of the program: "store" is the subscription made by the
\* VehicleStateManager constructor, "sse" the ones made by
\* APIServer.setupSSE, "tui" the one made by the TUI constructor.  "probe1",
\* "probe2" stand for any other listener that returns normally, "faulty"
\* for one that throws.  "joiner" is a listener that calls
\* eventBus.on(name, probe1) when it runs, "leaver" one that calls
\* eventBus.off for itself, "remover" one that calls eventBus.off(name, probe1).
NoListeners == [n \in EventNames |-> << >>]

\* Wiring with the listener of the API server registered before the store's
WiringSinksFirst(enableTui) ==
  [n \in EventNames |->
     CASE n = KV6_UPDATE ->
            IF enableTui THEN << "sse", "store", "tui" >> ELSE << "sse", "store" >>
       [] n = CONNECTION_STATUS -> << "sse" >>
       [] OTHER -> << >>]

\* index.ts: the state module is loaded first, then the API server is
\* built, then the TUI when it is enabled
Wiring(enableTui) ==
  [n \in EventNames |->
     CASE n = KV6_UPDATE ->
            IF enableTui THEN << "store", "sse", "tui" >> ELSE << "store", "sse" >>
       [] n = CONNECTION_STATUS -> << "sse" >>
       [] OTHER -> << >>]

\* TypedEventEmitter.on
on(ls, name, l) == [ls EXCEPT ![name] = Append(@, l)]

\* TypedEventEmitter.off: removes the most recently added instance
RECURSIVE RemoveLast(_, _)
RemoveLast(q, l) ==
  IF q = << >> THEN << >>
  ELSE IF q[Len(q)] = l THEN SubSeq(q, 1, Len(q) - 1)
  ELSE Append(RemoveLast(SubSeq(q, 1, Len(q) - 1), l), q[Len(q)])

off(ls, name, l) == [ls EXCEPT ![name] = RemoveLast(@, l)]

\* what the listeners of one emit call work on
EmitState(map, clients, log) ==
  [vehicles |-> map, clients |-> clients, log |-> log,
   delivered |-> << >>, thrown |-> FALSE,
   registry |-> listeners, requests |-> << >>]

\* one listener called with the data of the event
Invoke(l, name, data, st) ==
  LET called == [st EXCEPT !.delivered = Append(@, l)]
  IN CASE l \in {"store", "tui"} ->
            [called EXCEPT !.vehicles = updateVehicle(@, data)]
       [] l = "sse" ->
            LET message == IF name = KV6_UPDATE THEN VehicleUpdateItem(data)
                           ELSE ConnectionStatusItem(data)
                sent == broadcastSSE(called.clients, called.log, message)
            IN [called EXCEPT !.clients = sent.clients, !.log = sent.log]
       [] l = "faulty" -> [called EXCEPT !.thrown = TRUE]
       [] l = "joiner" ->
            [called EXCEPT !.registry = on(@, name, "probe1"),
                           !.requests = Append(@, [op |-> "on", l |-> "probe1"])]
       [] l = "leaver" ->
            [called EXCEPT !.registry = off(@, name, "leaver"),
                           !.requests = Append(@, [op |-> "off", l |-> "leaver"])]
       [] l = "remover" ->
            [called EXCEPT !.registry = off(@, name, "probe1"),
                           !.requests = Append(@, [op |-> "off", l |-> "probe1"])]
       [] OTHER -> called

\* EventEmitter.emit over the listeners registered when it was called: the
\* listeners run in order, and a listener that throws ends the call
RECURSIVE CallListeners(_, _, _, _)
CallListeners(ls, name, data, st) ==
  IF ls = << >> \/ st.thrown THEN st
  ELSE CallListeners(Tail(ls), name, data, Invoke(Head(ls), name, data, st))

emit(name, data, st) == CallListeners(listeners[name], name, data, st)

NoEmit == [name |-> "", registered |-> << >>, delivered |-> << >>, thrown |-> FALSE]

BusStart(ls) ==
  /\ listeners = ls
  /\ lastEmit = NoEmit

SseStart ==
  /\ sseClients = {}
  /\ written = [c \in SinkIds |-> << >>]
  /\ broken = {}
  /\ history = << >>
  /\ attachedAt = [c \in {} |-> 0]

\* ------------------------------------------------------------------------
\* The bus with arbitrary listeners
\* ------------------------------------------------------------------------
OtherListeners == {"probe1", "probe2", "faulty"}
BusEvents == {KV6_UPDATE, CONNECTION_STATUS}

On(name, l) ==
  /\ Len(listeners[name]) < MaxListeners
  /\ listeners' = on(listeners, name, l)
  /\ UNCHANGED << lastEmit, storeVars, parseVars, sseVars, connVars, readVars, decodeVars, lifeVars >>

Off(name, l) ==
  /\ listeners' = off(listeners, name, l)
  /\ UNCHANGED << lastEmit, storeVars, parseVars, sseVars, connVars, readVars, decodeVars, lifeVars >>

SampleData(name) ==
  IF name = KV6_UPDATE THEN KV6Update("V1", "L1", "ARRIVAL", 0, NoFields)
  ELSE NoUpdate

\* eventBus.emit(name, data) by a caller that does not catch
Emit(name) ==
  LET st == emit(name, SampleData(name), EmitState(vehicles, sseClients, written))
  IN /\ lastEmit' = [name |-> name, registered |-> listeners[name],
                     delivered |-> st.delivered, thrown |-> st.thrown]
     /\ UNCHANGED << listeners, storeVars, parseVars, sseVars, connVars, readVars, decodeVars, lifeVars >>

\* ------------------------------------------------------------------------
\* The bus with listeners that attach and detach while an emit runs
\* ------------------------------------------------------------------------
ReentrantListeners == {"joiner", "leaver", "remover", "probe1"}

\* emit that puts back the listener array it started from
EmitReentrantRestores(name) ==
  LET st == emit(name, SampleData(name), EmitState(vehicles, sseClients, written))
  IN /\ Len(st.registry[name]) <= MaxListeners
     /\ listeners' = listeners
     /\ lastEmit' = [name |-> name, registered |-> listeners[name],
                     delivered |-> st.delivered, thrown |-> st.thrown,
                     requests |-> st.requests, after |-> listeners'[name]]
     /\ UNCHANGED << storeVars, parseVars, sseVars, connVars, readVars, decodeVars, lifeVars >>

\* eventBus.emit(name, data) with listeners that call on / off: the calls
\* act on the emitter's own array, the emit in progress runs over its copy
EmitReentrant(name) ==
  LET st == emit(name, SampleData(name), EmitState(vehicles, sseClients, written))
  IN /\ Len(st.registry[name]) <= MaxListeners
     /\ listeners' = st.registry
     /\ lastEmit' = [name |-> name, registered |-> listeners[name],
                     delivered |-> st.delivered, thrown |-> st.thrown,
                     requests |-> st.requests, after |-> listeners'[name]]
     /\ UNCHANGED << storeVars, parseVars, sseVars, connVars, readVars, decodeVars, lifeVars >>

\* ------------------------------------------------------------------------
\* The intervals of the TUI and of the API server
\* ------------------------------------------------------------------------
NothingScheduled == [display |-> FALSE, sweep |-> FALSE, status |-> FALSE]

\* new TUI() sets the display and the sweep interval, setupSSE the status one
Intervals(enableTui) == [display |-> enableTui, sweep |-> enableTui, status |-> TRUE]

\* TUI.cleanup
cleanup(sched) == [sched EXCEPT !.display = FALSE, !.sweep = FALSE]

\* APIServer.stop: clearInterval(this.statusInterval)
stop(sched) == [sched EXCEPT !.status = FALSE]

LifeIdle ==
  /\ shutdownPc = "idle"
  /\ intervals = NothingScheduled

\* ------------------------------------------------------------------------
\* NDOVConnector
\* ------------------------------------------------------------------------
TOPIC == "/ARR/KV6posinfo"
OtherTopic == "/CXX/KV6posinfo"

\* main calls connector.connect() once; every other connect() is a reconnect
ConnectCalls == 1

\* setTimeout(..., 5000) in handleConnectionError
ReconnectDelay == 5000

\* A payload, by what the decoder can find out about it: the magic bytes it
\* starts with, whether zlib can decompress it, and the text it holds (the
\* decompressed text when it decompresses, else the bytes read as text).
Buffer(magic, inflates, text) == [magic |-> magic, inflates |-> inflates, text |-> text]

\* the markers '<?xml', '<VV_TM_PUSH', '<KV6posinfo' occur in the text
HasMarker(text) ==
  text.kind = "xml" /\ (text.envelope \/ text.root = "KV6posinfo")

\* buffer.toString('latin1'): compressed bytes read as text are not markup
Latin1(buffer) ==
  IF buffer.magic # "none" \/ buffer.inflates THEN MalformedDoc ELSE buffer.text

\* gunzipAsync / inflateAsync: the decompressed text, or an exception
Inflate(buffer) ==
  IF buffer.inflates THEN [thrown |-> FALSE, value |-> buffer.text]
  ELSE [thrown |-> TRUE, value |-> MalformedDoc]

\* the body of the try of decodeContent
TryDecode(buffer) ==
  IF buffer.magic = "gzip" THEN Inflate(buffer)
  ELSE IF buffer.magic = "zlib" THEN Inflate(buffer)
  ELSE IF ~Inflate(buffer).thrown /\ HasMarker(Inflate(buffer).value)
  THEN Inflate(buffer)
  ELSE IF ~buffer.inflates /\ HasMarker(buffer.text)
  THEN [thrown |-> FALSE, value |-> buffer.text]
  ELSE [thrown |-> FALSE, value |-> Latin1(buffer)]

\* decodeContent without its catch
DecodeUncaught(buffer) ==
  [raised |-> TryDecode(buffer).thrown, value |-> TryDecode(buffer).value]

\* decodeContent: what the call returns, and whether it raises
DecodeOutcome(buffer) ==
  IF TryDecode(buffer).thrown
  THEN [raised |-> FALSE, value |-> Latin1(buffer)]
  ELSE [raised |-> FALSE, value |-> TryDecode(buffer).value]

decodeContent(buffer) == DecodeOutcome(buffer).value

PositionMessage == CHOOSE m \in RawMessages : "userstopcode" \in DOMAIN m
JourneyMessage == CHOOSE m \in RawMessages : "rd-x" \notin DOMAIN m

\* a compressed document with two messages, a plain enveloped document with
\* one, a gzip stream that does not decompress, text that is not markup
TwoMessages ==
  XmlDoc(FALSE, "KV6posinfo",
         << [tag |-> "ARRIVAL", empty |-> FALSE, raw |-> PositionMessage],
            [tag |-> "INIT", empty |-> FALSE, raw |-> JourneyMessage] >>)

OneMessage ==
  XmlDoc(TRUE, "KV6posinfo",
         << [tag |-> "ARRIVAL", empty |-> FALSE, raw |-> JourneyMessage] >>)

Payloads ==
  { Buffer("gzip", TRUE, TwoMessages),
    Buffer("none", FALSE, OneMessage),
    Buffer("gzip", FALSE, TwoMessages),
    Buffer("none", FALSE, MalformedDoc) }

NoPayload == Buffer("none", FALSE, BlankDoc)

Frames ==
  { [topic |-> TOPIC, content |-> b] : b \in Payloads }
  \cup { [topic |-> OtherTopic, content |-> Buffer("none", FALSE, OneMessage)] }

\* a processMessages call: where it is, and the payload it is working on
\* with its number among the processed frames
NoLoop == [pc |-> "none", content |-> NoPayload, frame |-> 0]
Receiving == [pc |-> "receive", content |-> NoPayload, frame |-> 0]
\* what a step did: the failure it handled, the connection events it
\* emitted, the delays of the timers it set, the frame it finished (and the
\* loop that did), the topic of the frame it received, the timer whose
\* callback it ran
StepOf(failure, out, scheduled) ==
  [failure |-> failure, out |-> out, scheduled |-> scheduled, frame |-> 0, slot |-> 0,
   topic |-> "", timer |-> 0]
NoStep == StepOf("none", << >>, {})

StatusEvent(connected) == [name |-> CONNECTION_STATUS, connected |-> connected]
ErrorEvent == [name |-> CONNECTION_ERROR, connected |-> FALSE]

ConnStart ==
  /\ isConnected = FALSE
  /\ reconnectTimer = 0
  /\ timers = {}
  /\ nTimers = 0
  /\ awaiting = [connect |-> 0, subscribe |-> 0, disconnect |-> 0]
  /\ loops = [i \in 1..MaxLoops |-> NoLoop]
  /\ nCalls = [connect |-> 0, disconnect |-> 0, since |-> 0]
  /\ nFrames = 0
  /\ processed = << >>
  /\ published = << >>
  /\ disc = "none"
  /\ step = NoStep

\* the variables the listeners of the bus write
Delivered(st) ==
  /\ vehicles' = st.vehicles
  /\ sseClients' = st.clients
  /\ written' = st.log

untouchedByEmit ==
  << now, nUpdates, prev, lastOp, lastApplied, parseVars, busVars, broken,
     history, attachedAt, readVars, decodeVars, lifeVars >>

NoEmitAtAll == UNCHANGED << storeVars, parseVars, busVars, sseVars, readVars, decodeVars, lifeVars >>

\* a connect() call runs up to its first await
StartConnect ==
  awaiting' = [awaiting EXCEPT !.connect = @ + 1]

\* connector.connect() called by the application
ConnectCall ==
  /\ nCalls.connect < ConnectCalls
  /\ nCalls' = [nCalls EXCEPT !.connect = @ + 1, !.since = 0]
  /\ StartConnect
  /\ disc' = "none"
  /\ step' = NoStep
  /\ UNCHANGED << isConnected, reconnectTimer, timers, nTimers, loops, nFrames,
                  processed, published >>
  /\ NoEmitAtAll

\* the reconnect timer fires: this.connect()
TimerFires(t) ==
  /\ t \in timers
  /\ timers' = timers \ {t}
  /\ StartConnect
  /\ step' = [NoStep EXCEPT !.timer = t]
  /\ UNCHANGED << isConnected, reconnectTimer, nTimers, loops, nCalls, nFrames,
                  processed, published, disc >>
  /\ NoEmitAtAll

\* handleConnectionError that gives up after the first reconnect timer
HandleConnectionErrorOnce(kind) ==
  LET st0 == EmitState(vehicles, sseClients, written)
      st1 == emit(CONNECTION_ERROR, FALSE, st0)
      st2 == emit(CONNECTION_STATUS, FALSE, [st1 EXCEPT !.delivered = << >>])
  IN /\ nTimers < MaxTimers
     /\ isConnected' = FALSE
     /\ Delivered(st2)
     /\ IF nTimers >= 1
        THEN /\ step' = StepOf(kind, << ErrorEvent, StatusEvent(FALSE) >>, {})
             /\ UNCHANGED << reconnectTimer, timers, nTimers >>
        ELSE /\ nTimers' = nTimers + 1
             /\ reconnectTimer' = nTimers + 1
             /\ timers' = timers \cup {nTimers + 1}
             /\ step' = StepOf(kind, << ErrorEvent, StatusEvent(FALSE) >>,
                               {ReconnectDelay})
     /\ UNCHANGED untouchedByEmit

\* handleConnectionError
HandleConnectionError(kind) ==
  LET st0 == EmitState(vehicles, sseClients, written)
      st1 == emit(CONNECTION_ERROR, FALSE, st0)
      st2 == emit(CONNECTION_STATUS, FALSE, [st1 EXCEPT !.delivered = << >>])
  IN /\ nTimers < MaxTimers
     /\ isConnected' = FALSE
     /\ IF st1.thrown
        THEN /\ Delivered(st1)
             /\ step' = StepOf(kind, << ErrorEvent >>, {})
             /\ UNCHANGED << reconnectTimer, timers, nTimers >>
        ELSE IF st2.thrown
        THEN /\ Delivered(st2)
             /\ step' = StepOf(kind, << ErrorEvent, StatusEvent(FALSE) >>, {})
             /\ UNCHANGED << reconnectTimer, timers, nTimers >>
        ELSE /\ Delivered(st2)
             /\ nTimers' = nTimers + 1
             /\ reconnectTimer' = nTimers + 1
             /\ timers' = timers \cup {nTimers + 1}
             /\ step' = StepOf(kind, << ErrorEvent, StatusEvent(FALSE) >>,
                               {ReconnectDelay})
     /\ UNCHANGED untouchedByEmit

\* await this.subscriber.connect(endpoint) returns: subscribe is called
ConnectResolves ==
  /\ awaiting.connect > 0
  /\ awaiting' = [awaiting EXCEPT !.connect = @ - 1, !.subscribe = @ + 1]
  /\ step' = NoStep
  /\ UNCHANGED << isConnected, reconnectTimer, timers, nTimers, loops, nCalls,
                  nFrames, processed, published, disc >>
  /\ NoEmitAtAll

\* await this.subscriber.connect(endpoint) throws
ConnectRejects ==
  /\ awaiting.connect > 0
  /\ awaiting' = [awaiting EXCEPT !.connect = @ - 1]
  /\ HandleConnectionError("connect")
  /\ UNCHANGED << loops, nCalls, nFrames, processed, published, disc >>

\* await this.subscriber.subscribe(topic) throws
SubscribeRejects ==
  /\ awaiting.subscribe > 0
  /\ awaiting' = [awaiting EXCEPT !.subscribe = @ - 1]
  /\ HandleConnectionError("subscribe")
  /\ UNCHANGED << loops, nCalls, nFrames, processed, published, disc >>

FreeSlots == { i \in 1..MaxLoops : loops[i].pc = "none" }

\* await this.subscriber.subscribe(topic) returns: the connector is
\* connected, says so, and processMessages runs up to its first receive()
SubscribeResolves ==
  LET st == emit(CONNECTION_STATUS, TRUE, EmitState(vehicles, sseClients, written))
      slot == CHOOSE i \in FreeSlots : \A j \in FreeSlots : i <= j
  IN /\ awaiting.subscribe > 0
     /\ FreeSlots # {}
     /\ ~st.thrown
     /\ awaiting' = [awaiting EXCEPT !.subscribe = @ - 1]
     /\ isConnected' = TRUE
     /\ Delivered(st)
     /\ loops' = [loops EXCEPT ![slot] = Receiving]
     /\ step' = StepOf("none", << StatusEvent(TRUE) >>, {})
     /\ UNCHANGED << reconnectTimer, timers, nTimers, nCalls, nFrames, processed,
                     published, disc >>
     /\ UNCHANGED untouchedByEmit

\* connector.disconnect() called by the application, up to its await
DisconnectCall ==
  /\ nCalls.disconnect < MaxDisconnects
  /\ nCalls' = [nCalls EXCEPT !.disconnect = @ + 1, !.since = @ + 1]
  /\ timers' = IF reconnectTimer # 0 THEN timers \ {reconnectTimer} ELSE timers
  /\ isConnected' = FALSE
  /\ awaiting' = [awaiting EXCEPT !.disconnect = @ + 1]
  /\ step' = NoStep
  /\ disc' = "pending"
  /\ UNCHANGED << reconnectTimer, nTimers, loops, nFrames, processed, published >>
  /\ NoEmitAtAll

\* await this.subscriber.disconnect(endpoint) returns: the status is emitted
\* and disconnect() returns
DisconnectResolves ==
  LET st == emit(CONNECTION_STATUS, FALSE, EmitState(vehicles, sseClients, written))
  IN /\ awaiting.disconnect > 0
     /\ awaiting' = [awaiting EXCEPT !.disconnect = @ - 1]
     /\ Delivered(st)
     /\ disc' = IF disc = "pending" THEN "returned" ELSE disc
     /\ step' = StepOf("none", << StatusEvent(FALSE) >>, {})
     /\ UNCHANGED << isConnected, reconnectTimer, timers, nTimers, loops, nCalls,
                     nFrames, processed, published >>
     /\ UNCHANGED untouchedByEmit

\* await this.subscriber.disconnect(endpoint) throws: logged, disconnect()
\* returns
DisconnectRejects ==
  /\ awaiting.disconnect > 0
  /\ awaiting' = [awaiting EXCEPT !.disconnect = @ - 1]
  /\ disc' = IF disc = "pending" THEN "returned" ELSE disc
  /\ step' = NoStep
  /\ UNCHANGED << isConnected, reconnectTimer, timers, nTimers, loops, nCalls,
                  nFrames, processed, published >>
  /\ NoEmitAtAll

\* the test of while (this.isConnected), then the next receive() or the end
\* of processMessages
NextIteration(connected) ==
  IF connected THEN Receiving ELSE NoLoop

\* FrameArrives without the topic check
FrameArrivesAnyTopic(i, frame) ==
  /\ loops[i].pc = "receive"
  /\ nFrames < MaxFrames
  /\ nFrames' = nFrames + 1
  /\ loops' = [loops EXCEPT ![i] = [pc |-> "decode", content |-> frame.content,
                                    frame |-> Len(processed) + 1]]
  /\ processed' = Append(processed, frame.content)
  /\ step' = [NoStep EXCEPT !.topic = frame.topic, !.slot = i]
  /\ UNCHANGED << isConnected, reconnectTimer, timers, nTimers, awaiting, nCalls,
                  published, disc >>
  /\ NoEmitAtAll

\* await this.subscriber.receive() returns a frame: the topic is checked and
\* decodeContent is started
FrameArrives(i, frame) ==
  /\ loops[i].pc = "receive"
  /\ nFrames < MaxFrames
  /\ nFrames' = nFrames + 1
  /\ IF frame.topic # TOPIC
     THEN /\ loops' = [loops EXCEPT ![i] = NextIteration(isConnected)]
          /\ UNCHANGED processed
     ELSE /\ loops' = [loops EXCEPT ![i] = [pc |-> "decode", content |-> frame.content,
                                           frame |-> Len(processed) + 1]]
          /\ processed' = Append(processed, frame.content)
  /\ step' = [NoStep EXCEPT !.topic = frame.topic, !.slot = i]
  /\ UNCHANGED << isConnected, reconnectTimer, timers, nTimers, awaiting, nCalls,
                  published, disc >>
  /\ NoEmitAtAll

\* await this.subscriber.receive() throws: the inner catch logs the error
ReceiveFails(i) ==
  /\ loops[i].pc = "receive"
  /\ loops' = [loops EXCEPT ![i] = NextIteration(isConnected)]
  /\ step' = StepOf("receive", << >>, {})
  /\ UNCHANGED << isConnected, reconnectTimer, timers, nTimers, awaiting, nCalls,
                  nFrames, processed, published, disc >>
  /\ NoEmitAtAll

\* for (const message of messages) eventBus.emit(KV6_UPDATE, message): a
\* listener that throws ends the loop (the inner catch logs the error)
RECURSIVE EmitMessages(_, _, _)
EmitMessages(messages, st, sent) ==
  IF messages = << >> \/ st.thrown THEN [st |-> st, sent |-> sent]
  ELSE EmitMessages(Tail(messages),
                    emit(KV6_UPDATE, Head(messages), [st EXCEPT !.delivered = << >>]),
                    Append(sent, Head(messages)))

\* the payload does not decompress, or its text is not well-formed
DecodeOrParseFails(buffer) ==
  \/ buffer.magic # "none" /\ ~buffer.inflates
  \/ decodeContent(buffer).kind = "malformed"

\* ProcessFrame with the failure of a frame handled outside the while loop
ProcessFrameFailureEndsLoop(i) ==
  LET contentStr == decodeContent(loops[i].content)
      messages == parseXml(contentStr, "ARR")
      done == EmitMessages(messages, EmitState(vehicles, sseClients, written), << >>)
      n == loops[i].frame
  IN /\ loops[i].pc = "decode"
     /\ Delivered(done.st)
     /\ published' = published \o [k \in 1..Len(done.sent) |->
                                     [frame |-> n, update |-> done.sent[k]]]
     /\ loops' = [loops EXCEPT ![i] =
                    IF DecodeOrParseFails(loops[i].content) THEN NoLoop
                    ELSE NextIteration(isConnected)]
     /\ step' = [NoStep EXCEPT !.frame = n, !.slot = i]
     /\ UNCHANGED << isConnected, reconnectTimer, timers, nTimers, awaiting, nCalls,
                     nFrames, processed, disc >>
     /\ UNCHANGED untouchedByEmit

\* the content is decoded and parsed and the messages are emitted
ProcessFrame(i) ==
  LET contentStr == decodeContent(loops[i].content)
      messages == parseXml(contentStr, "ARR")
      done == EmitMessages(messages, EmitState(vehicles, sseClients, written), << >>)
      n == loops[i].frame
  IN /\ loops[i].pc = "decode"
     /\ Delivered(done.st)
     /\ published' = published \o [k \in 1..Len(done.sent) |->
                                     [frame |-> n, update |-> done.sent[k]]]
     /\ loops' = [loops EXCEPT ![i] = NextIteration(isConnected)]
     /\ step' = [NoStep EXCEPT !.frame = n, !.slot = i]
     /\ UNCHANGED << isConnected, reconnectTimer, timers, nTimers, awaiting, nCalls,
                     nFrames, processed, disc >>
     /\ UNCHANGED untouchedByEmit

\* ------------------------------------------------------------------------
\* Store operations as actions
\* ------------------------------------------------------------------------
StoreStart ==
  /\ vehicles = EmptyStore
  /\ now = 0
  /\ nUpdates = 0
  /\ prev = EmptyStore
  /\ lastOp = [op |-> "none", update |-> NoUpdate, maxAge |-> 0, at |-> 0]
  /\ lastApplied = EmptyStore

\* what an updateVehicle call leaves in the bookkeeping variables
RecordUpdate(update) ==
  /\ nUpdates' = nUpdates + 1
  /\ prev' = vehicles
  /\ lastOp' = [op |-> "update", update |-> update, maxAge |-> 0, at |-> now]
  /\ lastApplied' =
       IF update.vehicleNumber = "" THEN lastApplied
       ELSE [w \in DOMAIN lastApplied \cup {update.vehicleNumber} |->
               IF w = update.vehicleNumber THEN update ELSE lastApplied[w]]

RecordExpire(maxAgeMinutes) ==
  /\ prev' = vehicles
  /\ lastOp' = [op |-> "expire", update |-> NoUpdate,
                maxAge |-> maxAgeMinutes, at |-> now]

UpdateVehicle(update) ==
  /\ nUpdates < MaxUpdates
  /\ vehicles' = updateVehicle(vehicles, update)
  /\ RecordUpdate(update)
  /\ UNCHANGED << now, parseVars, busVars, sseVars, connVars, readVars, decodeVars, lifeVars >>

CleanupStaleVehicles(maxAgeMinutes) ==
  /\ vehicles' = cleanupStaleVehicles(vehicles, now, maxAgeMinutes)
  /\ RecordExpire(maxAgeMinutes)
  /\ UNCHANGED << now, nUpdates, lastApplied, parseVars, busVars, sseVars, connVars, readVars, decodeVars, lifeVars >>

Tick ==
  /\ now < MaxTime
  /\ now' = now + 1
  /\ UNCHANGED << vehicles, nUpdates, prev, lastOp, lastApplied,
                  parseVars, busVars, sseVars, connVars, readVars, decodeVars, lifeVars >>

\* ------------------------------------------------------------------------
\* decodeContent on every payload
\* ------------------------------------------------------------------------
Magics == {"gzip", "zlib", "none"}

Buffers == { Buffer(m, i, t) : m \in Magics, i \in BOOLEAN, t \in Documents }

DecodeIdle ==
  /\ payload = NoPayload
  /\ decoded = [pc |-> "idle", value |-> BlankDoc]

DecodeStart ==
  /\ payload \in Buffers
  /\ decoded = [pc |-> "start", value |-> BlankDoc]

DecodeContent ==
  /\ decoded.pc = "start"
  /\ decoded' = [pc |-> IF DecodeOutcome(payload).raised THEN "raised" ELSE "done",
                 value |-> DecodeOutcome(payload).value]
  /\ UNCHANGED << payload, storeVars, parseVars, busVars, sseVars, connVars, readVars, lifeVars >>

\* ------------------------------------------------------------------------
\* The store as a reader sees it: what getAllVehicles and getStatusCounts
\* return, with the identity of the VehicleState objects and the insertion
\* order of the Map
\* ------------------------------------------------------------------------
NoSnapshot ==
  [kind |-> "none", ids |-> << >>, taken |-> << >>, counts |-> NoCounts,
   store |-> EmptyStore]

ReadStart ==
  /\ objects = << >>
  /\ refs = EmptyStore
  /\ keys = << >>
  /\ held = NoSnapshot

\* The store on its own: any sequence of updates and sweeps
StoreInit == StoreStart /\ ParseIdle /\ BusStart(NoListeners) /\ SseStart /\ ConnStart
  /\ ReadStart /\ DecodeIdle /\ LifeIdle

StoreNext ==
  \/ \E update \in StoreUpdates : UpdateVehicle(update)
  \/ \E m \in 0..MaxAgeArg : CleanupStaleVehicles(m)
  \/ Tick

StoreSpec == StoreInit /\ [][StoreNext]_vars

\* the TUI sweeps with cleanupStaleVehicles(30)
SweepMaxAge == 30

\* vehicles of the example: four vehicles, one status each, then changes
ReadUpdates ==
  { KV6Update("V1", "L1", "ARRIVAL", 0, NoFields),
    KV6Update("V2", "L1", "INIT", 0, NoFields),
    KV6Update("V3", "L1", "DEPARTURE", 0, NoFields),
    KV6Update("V4", "L1", "END", 0, NoFields),
    KV6Update("V1", "L1", "END", 0 - 60, NoFields),
    KV6Update("V2", "L1", "ONROUTE", 0, NoFields) }

\* this.vehicles.set with the state written into the object already stored
SetInPlace(objs, rs, ks, v, newState) ==
  IF v \in DOMAIN rs
  THEN [objects |-> [objs EXCEPT ![rs[v]] = newState], refs |-> rs, keys |-> ks]
  ELSE [objects |-> Append(objs, newState),
        refs |-> [w \in DOMAIN rs \cup {v} |->
                    IF w = v THEN Len(objs) + 1 ELSE rs[w]],
        keys |-> Append(ks, v)]

\* this.vehicles.set(vehicleNumber, newState): newState is a new object; a
\* key that is already in the Map keeps its place
SetNewState(objs, rs, ks, v, newState) ==
  [objects |-> Append(objs, newState),
   refs |-> [w \in DOMAIN rs \cup {v} |-> IF w = v THEN Len(objs) + 1 ELSE rs[w]],
   keys |-> IF v \in DOMAIN rs THEN ks ELSE Append(ks, v)]

\* updateVehicle, with the objects
ReaderUpdate(update) ==
  LET v == update.vehicleNumber
      after == updateVehicle(vehicles, update)
      set == SetNewState(objects, refs, keys, v, after[v])
  IN /\ nUpdates < MaxInserts
     /\ vehicles' = after
     /\ IF v = "" THEN UNCHANGED << objects, refs, keys >>
        ELSE /\ objects' = set.objects
             /\ refs' = set.refs
             /\ keys' = set.keys
     /\ RecordUpdate(update)
     /\ UNCHANGED << now, held, parseVars, busVars, sseVars, connVars, decodeVars, lifeVars >>

\* cleanupStaleVehicles, with the objects
ReaderExpire ==
  LET after == cleanupStaleVehicles(vehicles, now, SweepMaxAge)
  IN /\ vehicles' = after
     /\ refs' = [v \in DOMAIN after |-> refs[v]]
     /\ keys' = SelectSeq(keys, LAMBDA k : k \in DOMAIN after)
     /\ RecordExpire(SweepMaxAge)
     /\ UNCHANGED << objects, held, now, nUpdates, lastApplied, parseVars, busVars,
                     sseVars, connVars, decodeVars, lifeVars >>

\* a reader calls getAllVehicles: a new array of the stored objects
GetAllVehicles ==
  LET list == getAllVehicles(vehicles)
  IN /\ held' = [kind |-> "list",
                 ids |-> [i \in 1..Len(list) |-> refs[list[i].vehicleNumber]],
                 taken |-> list, counts |-> NoCounts, store |-> vehicles]
     /\ UNCHANGED << objects, refs, keys, storeVars, parseVars, busVars, sseVars,
                     connVars, decodeVars, lifeVars >>

\* a reader calls getStatusCounts: a new object of numbers
GetStatusCounts ==
  /\ held' = [kind |-> "counts", ids |-> << >>, taken |-> << >>,
              counts |-> getStatusCounts(vehicles), store |-> vehicles]
  /\ UNCHANGED << objects, refs, keys, storeVars, parseVars, busVars, sseVars,
                  connVars, decodeVars, lifeVars >>

\* The decoder on its own: one decodeContent call on any payload
DecodeInit ==
  /\ DecodeStart /\ StoreStart /\ ParseIdle /\ BusStart(NoListeners) /\ SseStart
  /\ ConnStart /\ ReadStart /\ LifeIdle

DecodeNext == DecodeContent

DecodeSpec == DecodeInit /\ [][DecodeNext]_vars

ReadInit == StoreInit

ReadNext ==
  \/ \E update \in ReadUpdates : ReaderUpdate(update)
  \/ ReaderExpire
  \/ GetAllVehicles
  \/ GetStatusCounts

ReadSpec == ReadInit /\ [][ReadNext]_vars

\* The parser on its own: one parseXml call on any document
ParseInit == ParseStart /\ StoreStart /\ BusStart(NoListeners) /\ SseStart /\ ConnStart
  /\ ReadStart /\ DecodeIdle /\ LifeIdle

ParseNext == ParseXml

ParseSpec == ParseInit /\ [][ParseNext]_vars

\* The bus on its own: listeners come and go, events are emitted
BusInit == BusStart(NoListeners) /\ StoreStart /\ ParseIdle /\ SseStart /\ ConnStart
  /\ ReadStart /\ DecodeIdle /\ LifeIdle

BusNext ==
  \/ \E name \in BusEvents, l \in OtherListeners : On(name, l)
  \/ \E name \in BusEvents, l \in OtherListeners : Off(name, l)
  \/ \E name \in BusEvents : Emit(name)

BusSpec == BusInit /\ [][BusNext]_vars

ReentrantInit == BusInit

ReentrantNext ==
  \/ \E l \in ReentrantListeners : On(KV6_UPDATE, l)
  \/ \E l \in ReentrantListeners : Off(KV6_UPDATE, l)
  \/ EmitReentrant(KV6_UPDATE)

ReentrantSpec == ReentrantInit /\ [][ReentrantNext]_vars

\* ------------------------------------------------------------------------
\* Streaming: events published on the wired bus, SSE clients, the sweep
\* ------------------------------------------------------------------------
\* fresh events of one vehicle, an event of another vehicle that is an hour
\* old when it arrives, an event without a vehicle number
StreamUpdates ==
  { KV6Update("V1", "L1", t, 0, NoFields) : t \in UpdateTypes }
  \cup { KV6Update("V2", "L1", "ARRIVAL", 0 - 60, NoFields),
         KV6Update("", "L1", "ARRIVAL", 0, NoFields) }

HistoryEntry(op, update, maxAgeMinutes) ==
  [op |-> op, update |-> update, maxAge |-> maxAgeMinutes, at |-> now]

\* eventBus.emit(KV6_UPDATE, update), as processMessages does for a message
Publish(update) ==
  LET st == emit(KV6_UPDATE, update, EmitState(vehicles, sseClients, written))
  IN /\ Len(history) < MaxHistory
     /\ vehicles' = st.vehicles
     /\ sseClients' = st.clients
     /\ written' = st.log
     /\ history' = Append(history, HistoryEntry("publish", update, 0))
     /\ lastEmit' = [name |-> KV6_UPDATE, registered |-> listeners[KV6_UPDATE],
                     delivered |-> st.delivered, thrown |-> st.thrown]
     /\ RecordUpdate(update)
     /\ UNCHANGED << now, listeners, broken, attachedAt, parseVars, connVars, readVars, decodeVars, lifeVars >>

\* StreamAttach with the snapshot taken one store operation too early
StreamAttachStale(res) ==
  LET added == sseClients \cup {res}
      hello == sendSSEMessage(added, written, res, ConnectedItem)
      first == sendSSEMessage(hello.clients, hello.log, res, InitialDataItem(prev))
  IN /\ res \notin DOMAIN attachedAt
     /\ sseClients' = first.clients
     /\ written' = first.log
     /\ attachedAt' = [c \in DOMAIN attachedAt \cup {res} |->
                         IF c = res THEN Len(history) ELSE attachedAt[c]]
     /\ UNCHANGED << broken, history, storeVars, parseVars, busVars, connVars, readVars, decodeVars, lifeVars >>

\* GET /api/stream: a new response object joins the clients and is sent the
\* connected message and the current vehicles
StreamAttach(res) ==
  LET added == sseClients \cup {res}
      hello == sendSSEMessage(added, written, res, ConnectedItem)
      first == sendSSEMessage(hello.clients, hello.log, res, InitialDataItem(vehicles))
  IN /\ res \notin DOMAIN attachedAt
     /\ sseClients' = first.clients
     /\ written' = first.log
     /\ attachedAt' = [c \in DOMAIN attachedAt \cup {res} |->
                         IF c = res THEN Len(history) ELSE attachedAt[c]]
     /\ UNCHANGED << broken, history, storeVars, parseVars, busVars, connVars, readVars, decodeVars, lifeVars >>

\* the "close" / "aborted" handlers of the request
StreamClose(res) ==
  /\ res \in sseClients
  /\ sseClients' = sseClients \ {res}
  /\ UNCHANGED << written, broken, history, attachedAt, storeVars, parseVars, busVars, connVars, readVars, decodeVars, lifeVars >>

\* from now on write() on this response throws
WriteBreaks(res) ==
  /\ res \in sseClients
  /\ res \notin broken
  /\ broken' = broken \cup {res}
  /\ UNCHANGED << sseClients, written, history, attachedAt, storeVars, parseVars, busVars, connVars, readVars, decodeVars, lifeVars >>

\* the 30 second interval of setupSSE
StatusBroadcast ==
  LET sent == broadcastSSE(sseClients, written, StatusUpdateItem(vehicles))
  IN /\ sseClients # {}
     /\ \A c \in sseClients : Len(written[c]) < MaxWritten
     /\ sseClients' = sent.clients
     /\ written' = sent.log
     /\ UNCHANGED << broken, history, attachedAt, storeVars, parseVars, busVars, connVars, readVars, decodeVars, lifeVars >>

\* eventBus.emit(CONNECTION_STATUS, { connected }), as connect, disconnect
\* and handleConnectionError do
StatusChanged(connected) ==
  LET st == emit(CONNECTION_STATUS, connected, EmitState(vehicles, sseClients, written))
  IN /\ sseClients # {}
     /\ \A c \in sseClients : Len(written[c]) < MaxWritten
     /\ sseClients' = st.clients
     /\ written' = st.log
     /\ lastEmit' = [name |-> CONNECTION_STATUS, registered |-> listeners[CONNECTION_STATUS],
                     delivered |-> st.delivered, thrown |-> st.thrown,
                     sinks |-> sseClients, failing |-> sseClients \cap broken,
                     removed |-> sseClients \ st.clients,
                     wrote |-> { c \in SinkIds : st.log[c] # written[c] }]
     /\ UNCHANGED << listeners, broken, history, attachedAt, storeVars, parseVars, connVars, readVars, decodeVars, lifeVars >>

\* the 5 minute interval of the TUI
Sweep ==
  /\ Len(history) < MaxHistory
  /\ vehicles' = cleanupStaleVehicles(vehicles, now, SweepMaxAge)
  /\ RecordExpire(SweepMaxAge)
  /\ history' = Append(history, HistoryEntry("expire", NoUpdate, SweepMaxAge))
  /\ UNCHANGED << now, nUpdates, lastApplied, sseClients, written, broken,
                  attachedAt, parseVars, busVars, connVars, readVars, decodeVars, lifeVars >>

StreamInit == BusStart(Wiring(TRUE)) /\ StoreStart /\ SseStart /\ ParseIdle /\ ConnStart
  /\ ReadStart /\ DecodeIdle /\ LifeIdle

StreamNext ==
  \/ \E update \in StreamUpdates : Publish(update)
  \/ \E res \in SinkIds : StreamAttach(res)
  \/ \E res \in SinkIds : StreamClose(res)
  \/ \E res \in SinkIds : WriteBreaks(res)
  \/ StatusBroadcast
  \/ Sweep

StreamSpec == StreamInit /\ [][StreamNext]_vars

\* ------------------------------------------------------------------------
\* The response objects of the stream and everything that is written to them
\* ------------------------------------------------------------------------
SinkInit == StreamInit

SinkNext ==
  \/ Publish(KV6Update("V1", "L1", "ARRIVAL", 0, NoFields))
  \/ \E res \in SinkIds : StreamAttach(res)
  \/ \E res \in SinkIds : StreamClose(res)
  \/ \E res \in SinkIds : WriteBreaks(res)
  \/ StatusBroadcast
  \/ \E connected \in BOOLEAN : StatusChanged(connected)

SinkSpec == SinkInit /\ [][SinkNext]_vars

\* The pipeline as index.ts wires it, with no client on the stream
Init == ConnStart /\ BusStart(Wiring(TRUE)) /\ StoreStart /\ SseStart /\ ParseIdle
  /\ ReadStart /\ DecodeIdle /\ LifeIdle

Next ==
  \/ ConnectCall
  \/ \E t \in 1..MaxTimers : TimerFires(t)
  \/ ConnectResolves
  \/ ConnectRejects
  \/ SubscribeResolves
  \/ SubscribeRejects
  \/ DisconnectCall
  \/ DisconnectResolves
  \/ DisconnectRejects
  \/ \E i \in 1..MaxLoops, frame \in Frames : FrameArrives(i, frame)
  \/ \E i \in 1..MaxLoops : ReceiveFails(i)
  \/ \E i \in 1..MaxLoops : ProcessFrame(i)

Spec == Init /\ [][Next]_vars

\* ------------------------------------------------------------------------
\* main: start, run, shut down on a signal
\* ------------------------------------------------------------------------
\* the API server is started and the TUI made (when enabled) before the
\* connector is
ShutdownInit ==
  /\ \E enableTui \in BOOLEAN :
       /\ BusStart(Wiring(enableTui))
       /\ intervals = Intervals(enableTui)
  /\ shutdownPc = "starting"
  /\ ConnStart /\ StoreStart /\ SseStart /\ ParseIdle /\ ReadStart /\ DecodeIdle

\* the process has not ended
Alive == shutdownPc # "exited"

\* await connector.connect() has returned: the signal handlers are set
MainReady ==
  /\ shutdownPc = "starting"
  /\ nCalls.connect = ConnectCalls
  /\ awaiting.connect = 0
  /\ awaiting.subscribe = 0
  /\ shutdownPc' = "running"
  /\ UNCHANGED << intervals, storeVars, parseVars, busVars, sseVars, connVars, readVars, decodeVars >>

\* SIGINT / SIGTERM: shutdown runs tui.cleanup() and apiServer.stop() up to
\* the close of the server
Signal ==
  /\ shutdownPc = "running"
  /\ shutdownPc' = "shutdown"
  /\ intervals' = stop(cleanup(intervals))
  /\ sseClients' = {}
  /\ UNCHANGED << written, broken, history, attachedAt, storeVars, parseVars, busVars, connVars, readVars, decodeVars >>

\* process.exit(0) left out: shutdown returns and the process goes on
ShutdownReturns ==
  /\ shutdownPc = "shutdown"
  /\ disc = "returned"
  /\ shutdownPc' = "exited"
  /\ UNCHANGED << intervals, storeVars, parseVars, busVars, sseVars, connVars, readVars, decodeVars >>

\* connector.disconnect() has returned: process.exit(0) ends the process
\* and with it every timer that is pending
ProcessExit ==
  /\ shutdownPc = "shutdown"
  /\ disc = "returned"
  /\ shutdownPc' = "exited"
  /\ timers' = {}
  /\ intervals' = NothingScheduled
  /\ UNCHANGED << isConnected, reconnectTimer, nTimers, awaiting, loops, nCalls,
                  nFrames, processed, published, disc, step >>
  /\ UNCHANGED << storeVars, parseVars, busVars, sseVars, readVars, decodeVars >>

ShutdownNext ==
  \/ shutdownPc = "starting" /\ ConnectCall
  \/ \E t \in 1..MaxTimers : Alive /\ TimerFires(t)
  \/ Alive /\ ConnectResolves
  \/ Alive /\ ConnectRejects
  \/ Alive /\ SubscribeResolves
  \/ Alive /\ SubscribeRejects
  \/ MainReady
  \/ Signal
  \/ shutdownPc = "shutdown" /\ nCalls.disconnect = 0 /\ DisconnectCall
  \/ Alive /\ DisconnectResolves
  \/ Alive /\ DisconnectRejects
  \/ ProcessExit

ShutdownSpec == ShutdownInit /\ [][ShutdownNext]_vars

\* ------------------------------------------------------------------------
\* The connector driven through its public methods: connect() and
\* disconnect() called any number of times, with a client on the stream
\* ------------------------------------------------------------------------
\* connector.connect() called once more by the holder of the connector
ConnectAgain ==
  /\ nCalls.connect >= ConnectCalls
  /\ nCalls.connect < MaxConnects
  /\ nCalls' = [nCalls EXCEPT !.connect = @ + 1, !.since = 0]
  /\ StartConnect
  /\ disc' = "none"
  /\ step' = NoStep
  /\ UNCHANGED << isConnected, reconnectTimer, timers, nTimers, loops, nFrames,
                  processed, published >>
  /\ NoEmitAtAll

CallsInit == Init

CallsNext ==
  \/ ConnectCall
  \/ ConnectAgain
  \/ \E t \in 1..MaxTimers : TimerFires(t)
  \/ ConnectResolves
  \/ ConnectRejects
  \/ SubscribeResolves
  \/ SubscribeRejects
  \/ DisconnectCall
  \/ DisconnectResolves
  \/ DisconnectRejects
  \/ \E i \in 1..MaxLoops : ReceiveFails(i)
  \/ StreamAttach("c1")

CallsSpec == CallsInit /\ [][CallsNext]_vars

\* ------------------------------------------------------------------------
\* The running pipeline and the clock: events are published, time passes,
\* the sweep interval fires when the TUI has set it
\* ------------------------------------------------------------------------
\* the sweep interval of the TUI, in minutes
SweepInterval == 5

\* main has made the API server and, when it is enabled, the TUI
ExpiryInit ==
  /\ \E enableTui \in BOOLEAN :
       /\ BusStart(Wiring(enableTui))
       /\ intervals = Intervals(enableTui)
  /\ shutdownPc = "running"
  /\ ConnStart /\ StoreStart /\ SseStart /\ ParseIdle /\ ReadStart /\ DecodeIdle

FiveMinutesPass ==
  /\ now < MaxMinutes
  /\ now' = now + SweepInterval
  /\ UNCHANGED << vehicles, nUpdates, prev, lastOp, lastApplied,
                  parseVars, busVars, sseVars, connVars, readVars, decodeVars, lifeVars >>

\* the callback of the cleanupInterval: vehicleState.cleanupStaleVehicles(30)
CleanupInterval ==
  /\ intervals.sweep
  /\ vehicles' = cleanupStaleVehicles(vehicles, now, SweepMaxAge)
  /\ RecordExpire(SweepMaxAge)
  /\ UNCHANGED << now, nUpdates, lastApplied, parseVars, busVars, sseVars, connVars,
                  readVars, decodeVars, lifeVars >>

ExpiryNext ==
  \/ \E update \in StreamUpdates : Publish(update)
  \/ FiveMinutesPass
  \/ CleanupInterval

\* time passes, and an interval that is set fires
ExpirySpec ==
  /\ ExpiryInit /\ [][ExpiryNext]_vars
  /\ WF_vars(FiveMinutesPass) /\ WF_vars(CleanupInterval)

\* connect() called more than once, every attempt succeeds, frames arrive
LoopsInit == Init

LoopsNext ==
  \/ ConnectCall
  \/ ConnectAgain
  \/ ConnectResolves
  \/ SubscribeResolves
  \/ \E i \in 1..MaxLoops, frame \in Frames : FrameArrives(i, frame)
  \/ \E i \in 1..MaxLoops : ProcessFrame(i)

LoopsSpec == LoopsInit /\ [][LoopsNext]_vars

\* a timer that was set and not cleared fires
LiveSpec == Spec /\ \A t \in 1..MaxTimers : WF_vars(TimerFires(t))

\* ------------------------------------------------------------------------
\* Properties of the store
\* ------------------------------------------------------------------------
OptionalFieldNames ==
  {"stopCode", "latitude", "longitude", "occupancy", "punctuality"}

\* the last operation was updateVehicle with an event that names a vehicle
UpdatedVehicle == lastOp.op = "update" /\ lastOp.update.vehicleNumber # ""

\* C5: an update whose event lacks an optional field leaves the value an
\* earlier event stored in that field of the vehicle as it was.
C5_AbsentFieldKept ==
  UpdatedVehicle /\ lastOp.update.vehicleNumber \in DOMAIN prev =>
    LET v == lastOp.update.vehicleNumber
    IN \A f \in OptionalFieldNames :
         lastOp.update[f] = None /\ prev[v][f] # None =>
           vehicles[v][f] = prev[v][f]

C5_Witness ==
  /\ UpdatedVehicle
  /\ lastOp.update.vehicleNumber \in DOMAIN prev
  /\ \A f \in OptionalFieldNames :
       /\ lastOp.update[f] = None
       /\ prev[lastOp.update.vehicleNumber][f] # None
       /\ vehicles[lastOp.update.vehicleNumber][f]
            = prev[lastOp.update.vehicleNumber][f]
  /\ vehicles[lastOp.update.vehicleNumber].status
       # prev[lastOp.update.vehicleNumber].status

\* C6: after an update, every optional field the event carries is stored
\* with the value of the event, whatever that value is.
C6_PresentFieldStored ==
  UpdatedVehicle =>
    \A f \in OptionalFieldNames :
      lastOp.update[f] # None =>
        vehicles[lastOp.update.vehicleNumber][f] = lastOp.update[f]

\* C7: the status and lastUpdated of every stored vehicle are the type and
\* the timestamp of the event most recently applied for its vehicle id.
C7_StatusFromLastEvent ==
  \A v \in DOMAIN vehicles :
    /\ v \in DOMAIN lastApplied
    /\ vehicles[v].status = lastApplied[v].type
    /\ vehicles[v].lastUpdated = lastApplied[v].timestamp

\* an event older than the stored one, with no optional field, was applied
C7_Witness ==
  /\ UpdatedVehicle
  /\ lastOp.update.vehicleNumber \in DOMAIN prev
  /\ LET v == lastOp.update.vehicleNumber
     IN /\ prev[v].lastUpdated = MaxTime
        /\ lastOp.update.timestamp = 0
        /\ \A f \in OptionalFieldNames : lastOp.update[f] = None
        /\ prev[v].status # lastOp.update.type
        /\ vehicles[v].lastUpdated = 0
        /\ vehicles[v].status = lastOp.update.type

\* a <= b on JavaScript numbers
LessOrEqual(a, b) == a # NaN /\ b # NaN /\ a <= b

\* C10: cleanupStaleVehicles removes every entry whose age exceeds the
\* threshold, and keeps, unchanged, every entry whose age is at most the
\* threshold, whatever lastUpdated holds.
C10_ExpireExactlyStale ==
  lastOp.op = "expire" =>
    \A v \in DOMAIN prev :
      LET age == AgeMinutes(lastOp.at, prev[v].lastUpdated)
      IN /\ GreaterThan(age, lastOp.maxAge) => v \notin DOMAIN vehicles
         /\ LessOrEqual(age, lastOp.maxAge) =>
              v \in DOMAIN vehicles /\ vehicles[v] = prev[v]

\* one entry older than the threshold is gone, one at the threshold is kept
C10_Witness ==
  /\ lastOp.op = "expire"
  /\ \E v \in DOMAIN prev :
       /\ GreaterThan(AgeMinutes(lastOp.at, prev[v].lastUpdated), lastOp.maxAge)
       /\ v \notin DOMAIN vehicles
  /\ \E v \in DOMAIN prev :
       /\ AgeMinutes(lastOp.at, prev[v].lastUpdated) = lastOp.maxAge
       /\ v \in DOMAIN vehicles

\* ------------------------------------------------------------------------
\* Properties of the reads
\* ------------------------------------------------------------------------
\* the number of entries of a store with status st
WithStatus(map, st) == Cardinality({ v \in DOMAIN map : map[v].status = st })

\* C40: an update whose event has no vehicle number leaves the store as it
\* was: no entry is created, changed or removed.
C40_NoVehicleNumberNoChange ==
  lastOp.op = "update" /\ lastOp.update.vehicleNumber = "" => vehicles = prev

\* an event without a vehicle number came when the store held a vehicle
C40_Witness ==
  /\ lastOp.op = "update"
  /\ lastOp.update.vehicleNumber = ""
  /\ prev # EmptyStore
  /\ vehicles = prev

\* C34: applying the event of the last update once more leaves the store as
\* the first application left it.
C34_UpdateIdempotent ==
  lastOp.op = "update" => updateVehicle(vehicles, lastOp.update) = vehicles

\* an event with a stop code has changed the entry its vehicle had
C34_Witness ==
  /\ lastOp.op = "update"
  /\ lastOp.update.vehicleNumber \in DOMAIN prev
  /\ lastOp.update.stopCode = Some("S1")
  /\ vehicles # prev

\* the sum of the values of a record of numbers
RECURSIVE SumOver(_, _)
SumOver(f, S) ==
  IF S = {} THEN 0
  ELSE LET x == CHOOSE y \in S : TRUE
       IN f[x] + SumOver(f, S \ {x})

\* C36: in every state of the store the counts by status that
\* getStatusCounts returns add up to total, and active is at most total.
C36_CountsAddUp ==
  LET counts == getStatusCounts(vehicles)
  IN /\ SumOver(counts.byStatus, DOMAIN counts.byStatus) = counts.total
     /\ counts.active <= counts.total

\* three vehicles, one of them active and two with the same status, and a
\* reader holds the counts of this state
C36_Witness ==
  /\ held.kind = "counts"
  /\ held.store = vehicles
  /\ held.counts.total = 3
  /\ held.counts.active = 1
  /\ \E st \in DOMAIN held.counts.byStatus : held.counts.byStatus[st] = 2

\* C11: getStatusCounts returns total = the number of stored entries,
\* active = the number of entries whose status is ARRIVAL, DEPARTURE, ONROUTE
\* or ONSTOP, and per status the number of entries with that status.
C11_StatusCounts ==
  held.kind = "counts" =>
    /\ held.counts.total = Cardinality(DOMAIN held.store)
    /\ held.counts.active =
         WithStatus(held.store, "ARRIVAL") + WithStatus(held.store, "DEPARTURE")
         + WithStatus(held.store, "ONROUTE") + WithStatus(held.store, "ONSTOP")
    /\ DOMAIN held.counts.byStatus \subseteq KV6Types
    /\ \A st \in KV6Types :
         WithStatus(held.store, st) =
           IF st \in DOMAIN held.counts.byStatus THEN held.counts.byStatus[st] ELSE 0

\* statuses [ARRIVAL, INIT, DEPARTURE, END]: active 2, total 4
C11_Witness ==
  /\ held.kind = "counts"
  /\ DOMAIN held.store = {"V1", "V2", "V3", "V4"}
  /\ held.store["V1"].status = "ARRIVAL"
  /\ held.store["V2"].status = "INIT"
  /\ held.store["V3"].status = "DEPARTURE"
  /\ held.store["V4"].status = "END"
  /\ held.counts.active = 2
  /\ held.counts.total = 4

\* C12: getAllVehicles returns every stored entry that has a vehicle id
\* exactly once, in ascending order of vehicle id, whatever the order in
\* which the vehicles were inserted or updated.
C12_ListSorted ==
  held.kind = "list" =>
    /\ \A v \in DOMAIN held.store :
         held.store[v].vehicleNumber # "" =>
           Cardinality({ i \in 1..Len(held.taken) : held.taken[i] = held.store[v] }) = 1
    /\ \A i \in 1..Len(held.taken) :
         \E v \in DOMAIN held.store : held.taken[i] = held.store[v]
    /\ \A i, j \in 1..Len(held.taken) :
         i < j => IdRank(held.taken[i].vehicleNumber) < IdRank(held.taken[j].vehicleNumber)

\* V2 was inserted before V1, and V1 is listed first
C12_Witness ==
  /\ held.kind = "list"
  /\ held.store = vehicles
  /\ keys = << "V2", "V1" >>
  /\ Len(held.taken) = 2
  /\ held.taken[1].vehicleNumber = "V1"
  /\ held.taken[2].vehicleNumber = "V2"

\* what the holder of the array getAllVehicles returned reads in it now
HeldContents == [i \in 1..Len(held.ids) |-> objects[held.ids[i]]]

\* C13: the array getAllVehicles returned and the object getStatusCounts
\* returned hold what the store held at the call, whatever updateVehicle and
\* cleanupStaleVehicles calls came after it.
C13_SnapshotPointInTime ==
  /\ held.kind = "list" => HeldContents = getAllVehicles(held.store)
  /\ held.kind = "counts" => held.counts = getStatusCounts(held.store)

\* a listed vehicle was updated after the call, another one was removed
C13_Witness ==
  /\ held.kind = "list"
  /\ \E i \in 1..Len(held.taken) :
       /\ held.taken[i].vehicleNumber \in DOMAIN vehicles
       /\ vehicles[held.taken[i].vehicleNumber] # held.taken[i]
  /\ \E i \in 1..Len(held.taken) : held.taken[i].vehicleNumber \notin DOMAIN vehicles
  /\ HeldContents = held.taken

\* C37: an entry of the store that gets no further update is removed in the
\* end, with the display enabled or not.
C37_EntriesExpire ==
  \A v \in VehicleIds, n \in 0..MaxHistory :
    (v \in DOMAIN vehicles /\ nUpdates = n) ~>
      (v \notin DOMAIN vehicles \/ nUpdates > n)

\* ------------------------------------------------------------------------
\* Properties of the connector
\* ------------------------------------------------------------------------
\* C2: once a disconnect() call has returned (and the application has not
\* called connect() again), no reconnect timer is pending, so that none is
\* scheduled and no reconnect attempt starts afterwards.
C2_NoReconnectAfterDisconnect ==
  disc = "returned" => timers = {}

\* C3: a step that handles a connection failure, at connect time or in
\* receive(), leaves the connector disconnected, has emitted the status
\* event with connected = false and has set the reconnect timer with the
\* fixed delay.
C3_FailureHandled ==
  step.failure # "none" =>
    /\ ~isConnected
    /\ \E k \in 1..Len(step.out) : step.out[k] = StatusEvent(FALSE)
    /\ step.scheduled = {ReconnectDelay}
    /\ reconnectTimer \in timers

\* the step handled the failure of a connection attempt
AttemptFailed == step.failure \in {"connect", "subscribe"}

\* C15: every failed connection attempt sets the reconnect timer with the
\* same fixed delay, however many attempts failed before it, and unless
\* disconnect() is called the timer fires and starts the next attempt.
C15_RetriesForever ==
  /\ [](AttemptFailed =>
          step.scheduled = {ReconnectDelay} /\ reconnectTimer \in timers)
  /\ \A t \in 1..MaxTimers :
       (AttemptFailed /\ reconnectTimer = t) ~> (step.timer = t \/ disc # "none")

\* the attempt the first reconnect timer started has failed too, and the
\* second timer is pending
C15_Witness ==
  /\ AttemptFailed
  /\ nCalls.connect = 1
  /\ disc = "none"
  /\ nTimers = 2
  /\ reconnectTimer = 2
  /\ timers = {2}
  /\ step.scheduled = {ReconnectDelay}

\* C16: once a second disconnect() call has returned (and connect() was not
\* called again), the connector is as the first call is meant to leave it:
\* disconnected, with no reconnect timer pending.
C16_DisconnectIdempotent ==
  disc = "returned" /\ nCalls.since = 2 /\ awaiting.disconnect = 0 =>
    ~isConnected /\ timers = {}

\* the step received a frame whose topic is not the subscribed one
OtherTopicReceived == step'.topic # "" /\ step'.topic # TOPIC

\* C14: a step that receives a frame whose topic is not the subscribed
\* topic publishes nothing, hands nothing to the decoder, changes neither the
\* connection status nor the store nor the timers, handles no failure, and
\* leaves its loop waiting for the next frame while the connector is
\* connected.
C14_OtherTopicDiscarded ==
  [][ OtherTopicReceived =>
        /\ published' = published
        /\ processed' = processed
        /\ isConnected' = isConnected
        /\ vehicles' = vehicles
        /\ written' = written
        /\ timers' = timers
        /\ step'.failure = "none"
        /\ step'.out = << >>
        /\ loops'[step'.slot].pc # "decode"
        /\ isConnected => loops'[step'.slot] = Receiving ]_vars

\* a frame of another topic was discarded after a frame that was published
C14_Witness ==
  /\ step.topic = OtherTopic
  /\ isConnected
  /\ loops[step.slot] = Receiving
  /\ Len(processed) = 1
  /\ Len(published) = 2

\* the events emitted for processed frame n
PublishedOf(n) == SelectSeq(published, LAMBDA e : e.frame = n)

\* frame n has been processed to the end
Finished(n) == \A i \in 1..MaxLoops : loops[i].frame # n

\* the message elements in the text of a payload
MessagesIn(buffer) ==
  SelectSeq(buffer.text.children, LAMBDA el : el.tag \in KV6Types /\ ~el.empty)

\* C9: a frame whose decoding or parsing fails publishes no event and
\* leaves the loop that processed it running (waiting in receive() while the
\* connector is connected); a frame that decodes and parses has every one
\* of its messages published, also when it comes right after a failed one.
C9_BadFrameSkipped ==
  /\ \A n \in 1..Len(processed) :
       Finished(n) =>
         IF DecodeOrParseFails(processed[n]) THEN PublishedOf(n) = << >>
         ELSE /\ Len(PublishedOf(n)) = Len(MessagesIn(processed[n]))
              /\ \A k \in 1..Len(MessagesIn(processed[n])) :
                   \E e \in 1..Len(PublishedOf(n)) :
                     /\ PublishedOf(n)[e].update.type = MessagesIn(processed[n])[k].tag
                     /\ PublishedOf(n)[e].update.vehicleNumber
                          = MessagesIn(processed[n])[k].raw["vehiclenumber"]
  /\ step.frame # 0 /\ isConnected => loops[step.slot] = Receiving

\* a failed frame, then a frame with two messages, both processed by a
\* loop that is still running
C9_Witness ==
  /\ Len(processed) = 2
  /\ DecodeOrParseFails(processed[1])
  /\ ~DecodeOrParseFails(processed[2])
  /\ step.frame = 2
  /\ PublishedOf(1) = << >>
  /\ Len(PublishedOf(2)) = 2
  /\ isConnected
  /\ loops[step.slot] = Receiving

\* no branch of decodeContent finds a marker in the payload: it has no
\* compression signature and neither it nor what it inflates to is markup
NoMarkerFound(buffer) == buffer.magic = "none" /\ ~HasMarker(buffer.text)

\* the frames the connector has counted as dropped: NDOVConnector has the
\* fields subscriber, isConnected, reconnectTimer, topic, endpoint and
\* operator, and none of them is a count
droppedFrames == 0

\* C27: a frame on the subscribed topic in whose payload no marker is found
\* publishes no event, is counted as dropped, and leaves the loop that
\* processed it running.
C27_NoMarkerFrameDropped ==
  /\ \A n \in 1..Len(processed) :
       Finished(n) /\ NoMarkerFound(processed[n]) => PublishedOf(n) = << >>
  /\ droppedFrames =
       Cardinality({ n \in 1..Len(processed) :
                       Finished(n) /\ NoMarkerFound(processed[n]) })
  /\ step.frame # 0 /\ isConnected => loops[step.slot] = Receiving

\* the receive loops that are running or suspended in receive()
ActiveLoops == { i \in 1..MaxLoops : loops[i].pc # "none" }

\* C31: whatever connect() and disconnect() calls, failures and timer
\* firings have happened, at most one receive loop of the connector is
\* active.
C31_OneReceiveLoop ==
  Cardinality(ActiveLoops) <= 1

\* C32: at most one reconnect timer is pending, and a pending timer is the
\* one whose handle the connector holds (the one disconnect() clears).
C32_OneReconnectTimer ==
  /\ Cardinality(timers) <= 1
  /\ timers \subseteq {reconnectTimer}

\* no connect() and no disconnect() call is in progress
CallsReturned ==
  /\ awaiting.connect = 0
  /\ awaiting.subscribe = 0
  /\ awaiting.disconnect = 0

\* the connection status events a client of the stream has been sent
StatusItems(c) ==
  SelectSeq(written[c], LAMBDA m : m.kind = "connection_status")

\* C33: when no connect() or disconnect() call is in progress, the status
\* event emitted last (as a client attached to the stream received it)
\* carries the value of the isConnected flag.
C33_StatusMatchesFlag ==
  \A c \in sseClients :
    CallsReturned /\ StatusItems(c) # << >> =>
      StatusItems(c)[Len(StatusItems(c))].connected = isConnected

\* C39: the events are published frame by frame in the order the frames were
\* received, and the events of a frame in the order parseXml returned them.
C39_FramesInOrder ==
  /\ \A i, j \in 1..Len(published) :
       i < j => published[i].frame <= published[j].frame
  /\ \A n \in 1..Len(processed) :
       Finished(n) =>
         [k \in 1..Len(PublishedOf(n)) |-> PublishedOf(n)[k].update]
           = parseXml(decodeContent(processed[n]), "ARR")

\* ------------------------------------------------------------------------
\* Properties of the decoder
\* ------------------------------------------------------------------------
\* C17: for every payload, decodeContent returns a string and does not
\* raise.
C17_DecodeTotal ==
  decoded.pc \notin {"idle", "start"} =>
    decoded.pc = "done" /\ decoded.value \in Documents

\* a payload with the gzip signature that does not decompress was decoded
C17_Witness ==
  /\ payload.magic = "gzip"
  /\ ~payload.inflates
  /\ decoded.pc = "done"
  /\ decoded.value = MalformedDoc

\* ------------------------------------------------------------------------
\* Properties of the parser
\* ------------------------------------------------------------------------
\* the elements of recognized type under the root, in document order
RecognizedElements ==
  IF xmlContent.kind = "xml" /\ xmlContent.root = "KV6posinfo"
  THEN SelectSeq(xmlContent.children, LAMBDA el : el.tag \in KV6Types)
  ELSE << >>

\* event ev was made from element el
EventOf(ev, el) ==
  /\ ev.type = el.tag
  /\ ev.vehicleNumber = StrProp(el.raw, "vehiclenumber")

\* C4: parseXml returns one event per element of recognized type under the
\* root, in the order of the elements in the document.
C4_EventsInDocumentOrder ==
  parsePc = "done" =>
    /\ Len(parseResult) = Len(RecognizedElements)
    /\ \A i \in 1..Len(parseResult) :
         EventOf(parseResult[i], RecognizedElements[i])

\* C18: parseXml on an empty, a whitespace-only or a malformed text returns
\* no events and does not raise.
C18_BadInputNoEvents ==
  parsePc \notin {"idle", "start"}
    /\ xmlContent.kind \in {"blank", "whitespace", "malformed"} =>
      /\ parsePc = "done"
      /\ parseResult = << >>

\* parseXml has returned from a malformed text
C18_Witness ==
  /\ xmlContent = MalformedDoc
  /\ parsePc = "done"
  /\ parseResult = << >>

\* the same payload in the other form: with the envelope when it has none,
\* without it when it has one
OtherForm(content) == [content EXCEPT !.envelope = ~@]

\* C19: a payload inside the envelope element and the same payload without
\* the envelope give the same list of events.
C19_EnvelopeOptional ==
  parsePc = "done" /\ xmlContent.kind = "xml" =>
    parseResult = parseXml(OtherForm(xmlContent), "ARR")

\* parseXml has returned events from a payload inside the envelope
C19_Witness ==
  /\ parsePc = "done"
  /\ xmlContent.kind = "xml"
  /\ xmlContent.envelope
  /\ parseResult # << >>

NumericFields == {"punctuality", "occupancy", "latitude", "longitude"}

\* C20: no event returned by parseXml carries a numeric field that is not a
\* number: a field whose text cannot be coerced is absent from the event.
C20_UncoercibleFieldAbsent ==
  parsePc = "done" =>
    \A i \in 1..Len(parseResult) :
      \A f \in NumericFields : parseResult[i][f] # Some(NaN)

\* the message with the planar coordinates of the origin of the projection
WithValidCoordinates(rawMessage) ==
  [k \in DOMAIN rawMessage |->
     CASE k = "rd-x" -> "155000"
       [] k = "rd-y" -> "463000"
       [] OTHER -> rawMessage[k]]

\* the only element of the payload has both planar coordinates and the
\* transformer reports an error for them
DomainErrorElement ==
  /\ xmlContent.kind = "xml"
  /\ xmlContent.root = "KV6posinfo"
  /\ Len(xmlContent.children) = 1
  /\ xmlContent.children[1].tag \in KV6Types
  /\ ~xmlContent.children[1].empty
  /\ {"rd-x", "rd-y"} \subseteq DOMAIN xmlContent.children[1].raw
  /\ convertRdToWgs84(Number(xmlContent.children[1].raw["rd-x"]),
                      Number(xmlContent.children[1].raw["rd-y"])).error

\* C21: when the transformer reports a domain error for the coordinates of
\* a message, the event is emitted with every field it carries for valid
\* coordinates except latitude and longitude, which are absent.
C21_DomainErrorKeepsOtherFields ==
  parsePc = "done" /\ DomainErrorElement =>
    parseResult =
      << [normalizeMessage(
            normalizeKeys(WithValidCoordinates(xmlContent.children[1].raw)),
            xmlContent.children[1].tag, "ARR")
          EXCEPT !.latitude = None, !.longitude = None] >>

\* C22: the occupancy of every event returned by parseXml is absent or one
\* of the levels 0..5, whatever the text of the occupancy element.
C22_OccupancyInRange ==
  parsePc = "done" =>
    \A i \in 1..Len(parseResult) :
      parseResult[i].occupancy = None
        \/ parseResult[i].occupancy \subseteq 0..5

\* the payload has one element, of a recognized type, that carries fields
OneMessageElement ==
  /\ xmlContent.kind = "xml"
  /\ xmlContent.root = "KV6posinfo"
  /\ Len(xmlContent.children) = 1
  /\ xmlContent.children[1].tag \in KV6Types
  /\ ~xmlContent.children[1].empty

\* C35: the event of a message whose occupancy text is a number carries
\* that number as its occupancy, with or without planar coordinates in the
\* message and whether or not they can be transformed.
C35_OccupancyKept ==
  parsePc = "done" /\ OneMessageElement
    /\ "occupancy" \in DOMAIN xmlContent.children[1].raw
    /\ Number(xmlContent.children[1].raw["occupancy"]) # NaN =>
      /\ Len(parseResult) = 1
      /\ parseResult[1].occupancy =
           Some(Number(xmlContent.children[1].raw["occupancy"]))

\* the kinds of item the specification gives the stream
StreamKinds == {"connected", "initial_data", "vehicle_update", "status_update"}

\* C23: every item written to a response object of the stream has one of
\* the kinds connected, initial_data, vehicle_update, status_update.
C23_OnlyKnownKinds ==
  \A c \in SinkIds : \A i \in 1..Len(written[c]) : written[c][i].kind \in StreamKinds

\* C25: once shutdown has run, the reconnect timer, the expiry sweep and
\* the status tick are not scheduled; and cancelling the intervals of the
\* TUI leaves the status tick as it is, cancelling the status tick leaves
\* the sweep as it is, and neither touches the reconnect timer.
C25_NothingScheduledAfterShutdown ==
  /\ shutdownPc = "exited" => timers = {} /\ intervals = NothingScheduled
  /\ cleanup(intervals).status = intervals.status
  /\ stop(intervals).sweep = intervals.sweep

\* shutdown has run while a reconnect was in flight: the connector has set
\* a timer after disconnect() cleared the one it held
C25_Witness ==
  /\ shutdownPc = "exited"
  /\ nTimers >= 2
  /\ reconnectTimer = nTimers
  /\ timers = {}

\* C26: an update creates the entry of its vehicle when there is none, and
\* neither an update nor a read (getAllVehicles, getStatusCounts) removes
\* an entry: the set of stored vehicle ids shrinks in a sweep only.
C26_OnlyExpireRemoves ==
  [][ /\ (nUpdates' # nUpdates \/ held' # held) =>
           DOMAIN vehicles \subseteq DOMAIN vehicles'
      /\ (nUpdates' # nUpdates /\ lastOp'.update.vehicleNumber # "") =>
           lastOp'.update.vehicleNumber \in DOMAIN vehicles' ]_vars

\* a sweep has removed an entry that an update created and a reader saw
C26_Witness ==
  /\ lastOp.op = "expire"
  /\ DOMAIN vehicles # DOMAIN prev
  /\ vehicles # EmptyStore
  /\ held.kind = "list"
  /\ DOMAIN held.store = DOMAIN prev

\* C28: a broadcast writes the message to every attached response object
\* whose write does not throw and removes the objects whose write threw,
\* and no others.  In a step that writes to the response objects (every
\* step but an attach) each attached object that does not fail is sent the
\* same message and stays attached.
C28_SinksIndependent ==
  /\ [](lastEmit.name = CONNECTION_STATUS =>
          /\ lastEmit.wrote = lastEmit.sinks \ lastEmit.failing
          /\ lastEmit.removed = lastEmit.failing)
  /\ [][ attachedAt' = attachedAt /\ written' # written =>
          /\ sseClients' = sseClients \ broken
          /\ \E c \in sseClients \ broken :
               \A d \in sseClients \ broken :
                 /\ Len(written'[c]) = Len(written[c]) + 1
                 /\ written'[d] = Append(written[d], written'[c][Len(written'[c])])
          /\ \A d \in SinkIds \ (sseClients \ broken) : written'[d] = written[d] ]_vars

\* a broadcast found one response object failing and removed it, and wrote
\* the message to the other one
C28_Witness ==
  /\ lastEmit.name = CONNECTION_STATUS
  /\ lastEmit.removed # {}
  /\ \E d \in lastEmit.sinks \ lastEmit.removed :
       /\ d \in sseClients
       /\ Len(written[d]) = 3
       /\ written[d][3].kind = "connection_status"

\* the payload without the elements whose tag is not a KV6MessageType
WithoutUnrecognized(content) ==
  [content EXCEPT !.children = SelectSeq(@, LAMBDA el : el.tag \in KV6Types)]

\* C30: every event returned by parseXml has one of the nine types of
\* KV6MessageType, and the events are those of the payload without its
\* elements of any other tag.
C30_OnlyKnownTypes ==
  parsePc = "done" =>
    /\ \A i \in 1..Len(parseResult) : parseResult[i].type \in KV6Types
    /\ xmlContent.kind = "xml" =>
         parseResult = parseXml(WithoutUnrecognized(xmlContent), "ARR")

\* a payload with an element of an unrecognized tag before a recognized one
C30_Witness ==
  /\ parsePc = "done"
  /\ xmlContent.kind = "xml"
  /\ Len(xmlContent.children) = 2
  /\ xmlContent.children[1].tag \notin KV6Types
  /\ ~xmlContent.children[1].empty
  /\ xmlContent.children[2].tag \in KV6Types
  /\ Len(parseResult) = 1
  /\ parseResult[1].type = xmlContent.children[2].tag
\* ------------------------------------------------------------------------
\* Properties of the bus
\* ------------------------------------------------------------------------
\* C1: when a listener throws during an emit, the listeners registered
\* after it are still called with the event and the caller of emit does not
\* see the exception.
C1_FailureIsolated ==
  lastEmit.name # "" =>
    /\ lastEmit.delivered = lastEmit.registered
    /\ ~lastEmit.thrown

\* C29: an emit has called every listener that was registered for the
\* event when it was called, in the order of registration, by the time it
\* returns to its caller.
C29_DeliveredInRegistrationOrder ==
  lastEmit.name # "" =>
    /\ Len(lastEmit.delivered) = Len(lastEmit.registered)
    /\ \A i \in 1..Len(lastEmit.registered) :
         lastEmit.delivered[i] = lastEmit.registered[i]

\* how many times l is in the sequence q
Count(q, l) == Cardinality({ i \in 1..Len(q) : q[i] = l })

\* the number of subscriptions of l after the on / off requests of reqs,
\* starting from n
RECURSIVE Subscriptions(_, _, _)
Subscriptions(n, reqs, l) ==
  IF reqs = << >> THEN n
  ELSE LET r == Head(reqs)
           m == IF r.l # l THEN n
                ELSE IF r.op = "on" THEN n + 1
                ELSE IF n > 0 THEN n - 1 ELSE 0
       IN Subscriptions(m, Tail(reqs), l)

\* C24: listeners that attach or detach (themselves or another listener)
\* while an emit runs raise nothing, and after the emit every listener is
\* registered as many times as it was attached and not detached.
C24_AttachDetachDuringEmit ==
  lastEmit.name # "" =>
    /\ ~lastEmit.thrown
    /\ \A l \in ReentrantListeners :
         Count(lastEmit.after, l) =
           Subscriptions(Count(lastEmit.registered, l), lastEmit.requests, l)

\* an emit during which one listener attached another and one detached itself
C24_Witness ==
  /\ lastEmit.name # ""
  /\ \E i, j \in 1..Len(lastEmit.requests) :
       /\ lastEmit.requests[i].op = "on"
       /\ lastEmit.requests[j].op = "off"
  /\ lastEmit.after # lastEmit.registered
\* ------------------------------------------------------------------------
\* Properties of streaming
\* ------------------------------------------------------------------------
\* the store that results from the operations of a history, one by one
RECURSIVE Replay(_, _)
Replay(h, map) ==
  IF h = << >> THEN map
  ELSE LET e == Head(h)
           next == CASE e.op = "publish" -> updateVehicle(map, e.update)
                     [] e.op = "expire" -> cleanupStaleVehicles(map, e.at, e.maxAge)
                     [] OTHER -> map
       IN Replay(Tail(h), next)

UpdatesOf(items) == [i \in 1..Len(items) |-> items[i].update]

\* the events published since response object c attached
PublishedSince(c) ==
  UpdatesOf(SelectSeq(SubSeq(history, attachedAt[c] + 1, Len(history)),
                      LAMBDA e : e.op = "publish"))

\* the events written to response object c as vehicle_update items
LiveUpdates(c) ==
  UpdatesOf(SelectSeq(written[c], LAMBDA m : m.kind = "vehicle_update"))

\* C8: a client of the stream has been sent the connected message, then
\* one snapshot holding the vehicles as every event published (and every
\* sweep run) before it attached left them, then each event published since
\* it attached exactly once and in publish order.
C8_SnapshotThenLive ==
  \A c \in sseClients :
    /\ c \in DOMAIN attachedAt
    /\ Len(written[c]) >= 2
    /\ written[c][1].kind = "connected"
    /\ written[c][2].kind = "initial_data"
    /\ written[c][2].vehicles =
         getAllVehicles(Replay(SubSeq(history, 1, attachedAt[c]), EmptyStore))
    /\ \A i \in 3..Len(written[c]) : written[c][i].kind # "initial_data"
    /\ LiveUpdates(c) = PublishedSince(c)

\* a client attached between two published events of one vehicle
C8_Witness ==
  \E c \in sseClients :
    /\ c \in DOMAIN attachedAt
    /\ attachedAt[c] >= 1
    /\ Len(written[c]) >= 3
    /\ written[c][2].kind = "initial_data"
    /\ Len(written[c][2].vehicles) = 1
    /\ written[c][3].kind = "vehicle_update"
    /\ written[c][3].update.vehicleNumber = written[c][2].vehicles[1].vehicleNumber
    /\ written[c][3].update.type # written[c][2].vehicles[1].status

\* the listeners of an event that are called before the one of the API
\* server is
BeforeSinks(name) ==
  LET first == CHOOSE i \in 1..Len(listeners[name]) :
                 /\ listeners[name][i] = "sse"
                 /\ \A j \in 1..(i - 1) : listeners[name][j] # "sse"
  IN SubSeq(listeners[name], 1, first - 1)

\* the store as it is when the listener of the API server is called with an
\* event published on the store map
SeenBySinks(map, update) ==
  CallListeners(BeforeSinks(KV6_UPDATE), KV6_UPDATE, update,
                EmitState(map, {}, written)).vehicles

\* the last operation on the store was the publication of an event that
\* names a vehicle, and the listener of the API server was called with it
BroadcastUpdate ==
  /\ lastOp.op = "update"
  /\ lastOp.update.vehicleNumber # ""
  /\ lastEmit.name = KV6_UPDATE
  /\ \E i \in 1..Len(lastEmit.delivered) : lastEmit.delivered[i] = "sse"

\* C38: when the listener of the API server broadcasts a published event,
\* the store has applied the event already, and the store read after the
\* broadcast holds the status and time of the event.
C38_StoreBeforeSinks ==
  BroadcastUpdate =>
    LET e == lastOp.update
        v == e.vehicleNumber
        seen == SeenBySinks(prev, e)
    IN /\ seen = updateVehicle(prev, e)
       /\ v \in DOMAIN vehicles
       /\ vehicles[v].status = e.type
       /\ vehicles[v].lastUpdated = e.timestamp

\* a client of the stream has been sent the event that changed the entry of
\* its vehicle
C38_Witness ==
  /\ BroadcastUpdate
  /\ lastOp.update.vehicleNumber \in DOMAIN prev
  /\ prev # vehicles
  /\ \E c \in sseClients :
       /\ written[c] # << >>
       /\ written[c][Len(written[c])] = VehicleUpdateItem(lastOp.update)
====
